---- MODULE Spec2Model ----
(***************************************************************************)
(* Segmentation export of label_studio/data_export/formats/                *)
(* segmentation_csv_exporter.py: export_segmentation_metrics walks tasks,  *)
(* annotations and result records, decodes brush RLE masks and polygons,   *)
(* measures them and packages one CSV per (filename, task) group.          *)
(*                                                                         *)
(* Representation of Python values:                                        *)
(*   - a str that the code inspects is a sequence of one-character strings *)
(*   - None for a str-valued field is NoneStr; a falsy number is 0         *)
(*   - a float mean is a reduced fraction [n, d]; None is Absent (d = 0)   *)
(*   - an RLE entry is [k, v]: k = "int" (value v), "float" (value v/2)    *)
(*     or "str" (not a number)                                             *)
(*   - a pixel coordinate of a polygon is kept in hundredths               *)
(***************************************************************************)
EXTENDS Integers, Sequences, FiniteSets, TLC

\* Bounds of the explored batches.
MaxTasks == 2
MaxAnns == 2
MaxResults == 2

NoneStr == "<None>"
Absent == [n |-> 0, d |-> 0]

Min2(a, b) == IF a <= b THEN a ELSE b
Max2(a, b) == IF a >= b THEN a ELSE b

SetMin(S) == CHOOSE x \in S : \A y \in S : x <= y
SetMax(S) == CHOOSE x \in S : \A y \in S : x >= y

RECURSIVE Gcd(_, _)
Gcd(a, b) == IF b = 0 THEN a ELSE Gcd(b, a % b)

\* A float quotient num/den, as a reduced fraction.
Frac(num, den) == LET g == Gcd(num, den) IN [n |-> num \div g, d |-> den \div g]

RECURSIVE SumSeq(_)
SumSeq(s) == IF s = <<>> THEN 0 ELSE Head(s) + SumSeq(Tail(s))

RECURSIVE ConcatAll(_)
ConcatAll(ss) == IF ss = <<>> THEN <<>> ELSE Head(ss) \o ConcatAll(Tail(ss))

(***************************************************************************)
(* _decode_brush_rle_to_mask                                               *)
(***************************************************************************)
SkipRun_Ends(st) == [st EXCEPT !.stop = TRUE]

\* Lines 65-67: a count that is not positive flips value and continues.
SkipRun(st) == [st EXCEPT !.value = 1 - st.value]

\* The decoder's loop state after the entries of rle, in order.  idx2 is idx
\* in halves and fl tells that idx is a Python float; err is an exception
\* raised by the loop body (a str compared with 0, a float used as a slice
\* index), stop is the break at idx >= total.
RECURSIVE DecodeLoop(_, _, _)
DecodeLoop(rle, total, st) ==
  IF rle = <<>> \/ st.stop \/ st.err THEN st
  ELSE LET count == Head(rle) IN
    IF count.k = "str" THEN [st EXCEPT !.err = TRUE]
    ELSE LET c2 == IF count.k = "int" THEN 2 * count.v ELSE count.v
             cf == count.k = "float"
         IN IF c2 <= 0
            THEN DecodeLoop(Tail(rle), total, SkipRun(st))
            ELSE LET sum2 == st.idx2 + c2
                     inside == sum2 <= 2 * total
                     end2 == IF inside THEN sum2 ELSE 2 * total
                     endf == IF inside THEN (st.fl \/ cf) ELSE FALSE
                 IN IF st.value = 1 /\ (st.fl \/ endf)
                    THEN [st EXCEPT !.err = TRUE]
                    ELSE DecodeLoop(Tail(rle), total,
                           [flat  |-> IF st.value = 1
                                      THEN [i \in 1..total |->
                                              IF i > st.idx2 \div 2 /\ i <= end2 \div 2
                                              THEN 1 ELSE st.flat[i]]
                                      ELSE st.flat,
                            value |-> 1 - st.value,
                            idx2  |-> end2,
                            fl    |-> endf,
                            stop  |-> end2 >= 2 * total,
                            err   |-> FALSE])

DecodeInit_ForegroundFirst(total) ==
  [flat |-> [i \in 1..total |-> 0], value |-> 1, idx2 |-> 0, fl |-> FALSE,
   stop |-> FALSE, err |-> FALSE]

\* Lines 60-63: total, flat, value and idx before the loop.
DecodeInit(total) ==
  [flat |-> [i \in 1..total |-> 0], value |-> 0, idx2 |-> 0, fl |-> FALSE,
   stop |-> FALSE, err |-> FALSE]

Reshape_ColumnMajor(flat, width, height) ==
  [r \in 1..height |-> [c \in 1..width |-> flat[(c - 1) * height + r] > 0]]

\* A mask is a sequence of height rows of width booleans (row-major reshape).
Reshape(flat, width, height) ==
  [r \in 1..height |-> [c \in 1..width |-> flat[(r - 1) * width + c] > 0]]

DecodeBrushRleToMask_LastRunFills(rle, width, height) ==
  LET total == width * height
      st == DecodeLoop(rle, total, DecodeInit(total))
  IN [ok |-> ~st.err /\ width > 0 /\ height > 0,
      mask |-> Reshape([i \in 1..total |-> IF 2 * i > st.idx2 THEN st.value ELSE st.flat[i]],
                       width, height)]

\* [ok, mask]: ok is FALSE when the decoder raises: in the loop, or, for a
\* width or height below zero, in np.zeros (line 61, a negative total) or in
\* reshape (line 78, two negative dimensions).
DecodeBrushRleToMask(rle, width, height) ==
  LET total == width * height
      st == DecodeLoop(rle, total, DecodeInit(total))
  IN [ok |-> ~st.err /\ width > 0 /\ height > 0, mask |-> Reshape(st.flat, width, height)]

(***************************************************************************)
(* _polygon_points_percent_to_px, _rasterize_polygon                       *)
(***************************************************************************)
\* Unpacking "x_perc, y_perc" needs a pair, the arithmetic needs numbers.
VertexOk(v) == Len(v) = 2 /\ \A i \in 1..2 : v[i].k = "num"

\* Iterating a truthy non-list raises, as does a vertex that is no pair of numbers.
PolygonPointsRaise(points) ==
  \/ points.t = "int" /\ points.v # 0
  \/ points.t = "list" /\ \E i \in 1..Len(points.items) : ~VertexOk(points.items[i])

\* "value.get('points') or []"
PointsOrEmpty(points) == IF points.t = "list" THEN points.items ELSE <<>>

\* Pixel coordinates in hundredths: x = x_perc / 100 * width.
PolygonPointsPercentToPx(items, width, height) ==
  [i \in 1..Len(items) |-> <<items[i][1].v * width, items[i][2].v * height>>]

\* int(round(x)) of a float given in hundredths: round half to even.
RoundHundredths(x100) ==
  LET q == x100 \div 100
      r == x100 % 100
  IN IF r < 50 THEN q
     ELSE IF r > 50 THEN q + 1
     ELSE IF q % 2 = 0 THEN q ELSE q + 1

\* ImageDraw.polygon(outline=1, fill=1) on a width x height image, for the
\* polygons drawn here: axis-aligned boxes, segments and points, whose fill
\* and outline cover the box spanned by the rounded vertices, clipped.
DrawPolygon(pts, width, height) ==
  LET xs == {pts[i][1] : i \in 1..Len(pts)}
      ys == {pts[i][2] : i \in 1..Len(pts)}
  IN [r \in 1..height |-> [c \in 1..width |->
        /\ SetMin(xs) <= c - 1 /\ c - 1 <= SetMax(xs)
        /\ SetMin(ys) <= r - 1 /\ r - 1 <= SetMax(ys)]]

RasterizePolygon(points_px, width, height) ==
  IF points_px = <<>>
  THEN [r \in 1..height |-> [c \in 1..width |-> FALSE]]
  ELSE DrawPolygon([i \in 1..Len(points_px) |->
                      <<RoundHundredths(points_px[i][1]), RoundHundredths(points_px[i][2])>>],
                   width, height)

(***************************************************************************)
(* _compute_bbox_and_area                                                  *)
(***************************************************************************)
\* np.where(mask): the zero-based (row, column) pairs of the true pixels.
MaskWidth(mask) == IF Len(mask) = 0 THEN 0 ELSE Len(mask[1])

TruePixels(mask) ==
  {p \in (0..(Len(mask) - 1)) \X (0..(MaskWidth(mask) - 1)) : mask[p[1] + 1][p[2] + 1]}

MaskSum(mask) == Cardinality(TruePixels(mask))

ComputeBboxAndArea_Inclusive(mask) ==
  LET tp == TruePixels(mask)
      xs == {p[2] : p \in tp}
      ys == {p[1] : p \in tp}
  IN IF xs = {} \/ ys = {}
     THEN [x |-> 0, y |-> 0, w |-> 0, h |-> 0, area |-> 0]
     ELSE [x |-> SetMin(xs), y |-> SetMin(ys),
           w |-> SetMax(xs) - SetMin(xs) + 1,
           h |-> SetMax(ys) - SetMin(ys) + 1,
           area |-> MaskSum(mask)]

ComputeBboxAndArea_OneBased(mask) ==
  LET tp == TruePixels(mask)
      xs == {p[2] : p \in tp}
      ys == {p[1] : p \in tp}
  IN IF xs = {} \/ ys = {}
     THEN [x |-> 0, y |-> 0, w |-> 0, h |-> 0, area |-> 0]
     ELSE [x |-> SetMin(xs) + 1, y |-> SetMin(ys) + 1,
           w |-> Max2(0, SetMax(xs) - SetMin(xs)),
           h |-> Max2(0, SetMax(ys) - SetMin(ys)),
           area |-> MaskSum(mask)]

ComputeBboxAndArea(mask) ==
  LET tp == TruePixels(mask)
      xs == {p[2] : p \in tp}
      ys == {p[1] : p \in tp}
  IN IF xs = {} \/ ys = {}
     THEN [x |-> 0, y |-> 0, w |-> 0, h |-> 0, area |-> 0]
     ELSE [x |-> SetMin(xs), y |-> SetMin(ys),
           w |-> Max2(0, SetMax(xs) - SetMin(xs)),
           h |-> Max2(0, SetMax(ys) - SetMin(ys)),
           area |-> MaskSum(mask)]

(***************************************************************************)
(* _compute_intensities                                                    *)
(***************************************************************************)
\* An opened PIL image: [w, h, mode, px], px[row][col] = <<R, G, B>> (a
\* single-channel image keeps its value in every component).  NoImage is None.
NoImage == [w |-> 0, h |-> 0, mode |-> "none", px |-> <<>>]

\* Image.convert("L"): the single-channel modes keep their value, a colour
\* pixel becomes its ITU-R 601-2 luma.
ConvertL(image, p) ==
  IF image.mode \in {"L", "I", "I;16", "F"} THEN p[1]
  ELSE (p[1] * 19595 + p[2] * 38470 + p[3] * 7471 + 32768) \div 65536

SumOver(S, f(_)) ==
  LET RECURSIVE Acc(_)
      Acc(T) == IF T = {} THEN 0
                ELSE LET x == CHOOSE y \in T : TRUE IN f(x) + Acc(T \ {x})
  IN Acc(S)

ComputeIntensities_AlwaysZero(image, mask) ==
  [ok |-> TRUE, gray |-> [n |-> 0, d |-> 1], r |-> [n |-> 0, d |-> 1],
   g |-> [n |-> 0, d |-> 1], b |-> [n |-> 0, d |-> 1]]

\* [ok, gray, r, g, b]; ok is FALSE when the boolean index raises because the
\* mask and the image differ in shape.
ComputeIntensities(image, mask) ==
  LET tp == TruePixels(mask)
      cnt == Cardinality(tp)
      Gray(p) == ConvertL(image, image.px[p[1] + 1][p[2] + 1])
      Chan(k) == LET V(p) == image.px[p[1] + 1][p[2] + 1][k] IN Frac(SumOver(tp, V), cnt)
  IN IF cnt = 0
     THEN [ok |-> TRUE, gray |-> Absent, r |-> Absent, g |-> Absent, b |-> Absent]
     ELSE IF Len(mask) # image.h \/ MaskWidth(mask) # image.w
     THEN [ok |-> FALSE, gray |-> Absent, r |-> Absent, g |-> Absent, b |-> Absent]
     ELSE IF image.mode \in {"L", "I", "I;16", "F"}
     THEN [ok |-> TRUE, gray |-> Frac(SumOver(tp, Gray), cnt),
           r |-> Absent, g |-> Absent, b |-> Absent]
     ELSE [ok |-> TRUE, gray |-> Frac(SumOver(tp, Gray), cnt),
           r |-> Chan(1), g |-> Chan(2), b |-> Chan(3)]

(***************************************************************************)
(* _resolve_image_source, _open_image                                      *)
(***************************************************************************)
\* The image references (URL strings) of the explored task data, and what the
\* file system and the network hold for each.
UrlLocal   == "upload://a\\b"
UrlRemote  == "http://h/a_b"
UrlMissing == "upload://c"
UrlEmpty   == ""

ImgRGB ==
  [w |-> 2, h |-> 2, mode |-> "RGB",
   px |-> << << <<10, 20, 30>>, <<40, 50, 60>> >>,
             << <<0, 0, 0>>, <<255, 255, 255>> >> >>]

ImgL == [w |-> 2, h |-> 1, mode |-> "L", px |-> << << <<7, 7, 7>>, <<9, 9, 9>> >> >>]

\* image_url.startswith("upload://")
IsUpload(url) == url \in {UrlLocal, UrlMissing}

\* os.path.basename of the path of the URL.
Basename(url) ==
  CASE url = UrlLocal -> <<"a", "\\", "b">>
    [] url = UrlRemote -> <<"a", "_", "b">>
    [] url = UrlMissing -> <<"c">>
    [] OTHER -> <<"i", "m", "a", "g", "e">>

\* What Image.open yields for the file or the response body of the URL
\* (NoImage: no such file, a failed request, or bytes that do not decode).
Stored(url) ==
  CASE url = UrlLocal -> ImgRGB
    [] url = UrlRemote -> ImgL
    [] OTHER -> NoImage

\* Lines 149-152 and 176-177: the upload:// and http(s):// branches.
ResolveImageSource(image_url) ==
  [url |-> image_url, local |-> IsUpload(image_url), filename |-> Basename(image_url)]

\* Lines 190-195 (a local path that exists) and 219-237 (a remote fetch,
\* only if allowed).
OpenImage(source, download_resources) ==
  IF source.local /\ Stored(source.url) # NoImage THEN Stored(source.url)
  ELSE IF ~download_resources THEN NoImage
  ELSE IF ~source.local THEN Stored(source.url)
  ELSE NoImage

(***************************************************************************)
(* _get_object_value_key_for_result                                        *)
(***************************************************************************)
\* project.get_parsed_config(): the objects of every control, in order.
ParsedConfigInputs ==
  << [type |-> "Image", name |-> "img",  dollar |-> TRUE, key |-> "image"],
     [type |-> "Image", name |-> "img2", dollar |-> TRUE, key |-> "image2"] >>

GetObjectValueKeyForResult(result_to_name) ==
  LET objs == ParsedConfigInputs
      hit == {i \in 1..Len(objs) : objs[i].type = "Image" /\ objs[i].name = result_to_name}
      any == {i \in 1..Len(objs) : objs[i].type = "Image"}
  IN IF hit # {} THEN objs[SetMin(hit)].key
     ELSE IF any # {} THEN objs[SetMin(any)].key
     ELSE NoneStr

\* Task data is a sequence of [key, ref] (a dict in insertion order).
DataHas(data, k) == \E i \in 1..Len(data) : data[i].key = k
DataGet(data, k) == data[CHOOSE i \in 1..Len(data) : data[i].key = k].ref

ImageUrlOf_First(data, to_name) == IF Len(data) > 0 THEN data[1].ref ELSE UrlEmpty

\* Lines 323-325: the image reference of a record ("" when there is none).
ImageUrlOf(data, to_name) ==
  LET k0 == GetObjectValueKeyForResult(to_name)
      data_key == IF k0 # NoneStr THEN k0
                  ELSE IF Len(data) > 0 THEN data[1].key ELSE NoneStr
  IN IF DataHas(data, data_key) THEN DataGet(data, data_key)
     ELSE IF Len(data) > 0 THEN data[1].ref
     ELSE UrlEmpty

(***************************************************************************)
(* _first_label_from_result_value, the TextArea value                      *)
(***************************************************************************)
\* ";".join(labels); a label is a sequence of characters.
RECURSIVE JoinLabels(_)
JoinLabels(labels) ==
  IF labels = <<>> THEN <<>>
  ELSE IF Len(labels) = 1 THEN labels[1]
  ELSE labels[1] \o <<";">> \o JoinLabels(Tail(labels))

FirstLabelFromResultValue(value, key) ==
  JoinLabels(IF key = "brushlabels" THEN value.brushlabels ELSE value.polygonlabels)

RECURSIVE StripLeft(_)
StripLeft(s) == IF s # <<>> /\ Head(s) = " " THEN StripLeft(Tail(s)) ELSE s

RECURSIVE StripRight(_)
StripRight(s) ==
  IF s # <<>> /\ s[Len(s)] = " " THEN StripRight(SubSeq(s, 1, Len(s) - 1)) ELSE s

Strip(s) == StripRight(StripLeft(s))

DigitChars == <<"0", "1", "2", "3", "4", "5", "6", "7", "8", "9">>
DigitValue(c) == (CHOOSE i \in 1..10 : DigitChars[i] = c) - 1
IsDigit(c) == \E i \in 1..10 : DigitChars[i] = c

RECURSIVE DigitsValue(_)
DigitsValue(s) ==
  IF s = <<>> THEN 0 ELSE 10 * DigitsValue(SubSeq(s, 1, Len(s) - 1)) + DigitValue(s[Len(s)])

\* float(str(text).strip()) for the texts used here: a run of digits is a
\* number, anything else raises ValueError.  [ok, v]
ParseFloat(text) ==
  LET s == Strip(text)
  IN IF s # <<>> /\ \A i \in 1..Len(s) : IsDigit(s[i])
     THEN [ok |-> TRUE, v |-> [n |-> DigitsValue(s), d |-> 1]]
     ELSE [ok |-> FALSE, v |-> Absent]

\* str(n) of a non-negative int.
RECURSIVE IntToStr(_)
IntToStr(n) ==
  IF n < 10 THEN <<DigitChars[n + 1]>> ELSE IntToStr(n \div 10) \o <<DigitChars[(n % 10) + 1]>>

\* str.lower() on the characters used here.
LowerChar(c) ==
  CASE c = "C" -> "c" [] c = "S" -> "s" [] c = "V" -> "v" [] OTHER -> c

\* (res.get("type") or "").lower()
LowerType(t) ==
  CASE t = "BrushLabels" -> "brushlabels"
    [] t = "PolygonLabels" -> "polygonlabels"
    [] OTHER -> t

EndsWith(s, suffix) ==
  Len(s) >= Len(suffix) /\ SubSeq(s, Len(s) - Len(suffix) + 1, Len(s)) = suffix

(***************************************************************************)
(* Inputs of the explored batches                                          *)
(***************************************************************************)
\* The task data of the explored batches: an upload whose file is missing
\* beside an empty reference, and an upload beside a remote URL.
DataMenu ==
  { << [key |-> "image", ref |-> UrlMissing], [key |-> "image2", ref |-> UrlEmpty] >>,
    << [key |-> "image", ref |-> UrlLocal], [key |-> "image2", ref |-> UrlRemote] >> }

IntE(v) == [k |-> "int", v |-> v]
FloatE(v2) == [k |-> "float", v |-> v2]
StrE == [k |-> "str", v |-> 0]
Num(v) == [k |-> "num", v |-> v]

NoList == [t |-> "none", v |-> 0, items |-> <<>>]
ListOf(items) == [t |-> "list", v |-> 0, items |-> items]
IntValue(v) == [t |-> "int", v |-> v, items |-> <<>>]

\* A result record {id, type, to_name, original_width, original_height, value}.
Rec(id, type, brushlabels, polygonlabels, text, to_name, size, format, rle, points) ==
  [id |-> id, type |-> type, to_name |-> to_name,
   original_width |-> size[1], original_height |-> size[2],
   value |-> [brushlabels |-> brushlabels, polygonlabels |-> polygonlabels,
              text |-> text, format |-> format, rle |-> rle, points |-> points,
              original_width |-> 0, original_height |-> 0]]

LabelA == << <<"A">> >>
LabelsBC == << <<"B">>, <<"C">> >>
LabelD == << <<"D">> >>
RleOk == ListOf(<<IntE(1), IntE(2)>>)
BoxPoints ==
  ListOf(<< <<Num(0), Num(0)>>, <<Num(50), Num(0)>>, <<Num(50), Num(100)>>, <<Num(0), Num(100)>> >>)

\* Records that differ in shape payload, all drawn on "img" with explicit 2 x 2 size.
ShapeRecords ==
  { Rec("r1", "brush", <<>>, <<>>, <<>>, "img", <<2, 2>>, "rle",
        ListOf(<<IntE(0), IntE(1), IntE(0), IntE(0), IntE(3)>>), NoList),
    Rec("r2", "BrushLabels", <<>>, <<>>, <<>>, "img", <<2, 2>>, "rle",
        ListOf(<<IntE(0), IntE(1), StrE>>), NoList),
    Rec("r2", "BrushLabels", <<>>, <<>>, <<>>, "img", <<2, 2>>, "rle",
        ListOf(<<FloatE(3)>>), NoList),
    Rec("r2", "BrushLabels", <<>>, <<>>, <<>>, "img", <<2, 2>>, "rle", IntValue(5), NoList),
    Rec("r1", "brushlabels", LabelD, <<>>, <<>>, "img", <<2, 2>>, "", NoList, NoList),
    Rec("r1", "PolygonLabels", <<>>, LabelsBC, <<>>, "img", <<2, 2>>, "", NoList, BoxPoints),
    Rec("r1", "PolygonLabels", <<>>, LabelsBC, <<>>, "img", <<2, 2>>, "", NoList,
        ListOf(<< <<Num(0), Num(0)>>, <<Num(50)>> >>)),
    Rec("r1", "PolygonLabels", <<>>, LabelsBC, <<>>, "img", <<2, 2>>, "", NoList, IntValue(5)),
    Rec("r1", "textarea", <<>>, <<>>, << <<" ", "7">> >>, "img", <<2, 2>>, "", NoList, NoList),
    Rec("r2", "textarea", <<>>, <<>>, << <<"x">> >>, "img", <<2, 2>>, "", NoList, NoList),
    Rec("r1", "labels", LabelD, <<>>, <<>>, "img", <<2, 2>>, "", NoList, NoList) }

\* Records that differ in image field and explicit size (0 = absent, -2 = a
\* size below zero), all with a well-formed shape.
ImageRecords ==
  { Rec(NoneStr, "brushlabels", LabelA, <<>>, <<>>, n, z, "rle", RleOk, NoList)
      : n \in {"img", "img2"}, z \in { <<0, 0>>, <<2, 2>> } }
  \cup
  { Rec(NoneStr, "brushlabels", LabelA, <<>>, <<>>, "img", <<2, 0>>, "rle", RleOk, NoList),
    Rec(NoneStr, "brushlabels", LabelA, <<>>, <<>>, "img", <<-2, -2>>, "rle", RleOk, NoList),
    Rec("r1", "PolygonLabels", <<>>, LabelsBC, <<>>, "img2", <<0, 0>>, "", NoList, BoxPoints) }

RecordMenu == ShapeRecords \cup ImageRecords

\* What the pre-scan (lines 296-315) reads of a record: the rest of a record
\* is drawn when the inner loop reaches it.
FacetOf(res) ==
  [id |-> res.id, type |-> res.type, brushlabels |-> res.value.brushlabels,
   polygonlabels |-> res.value.polygonlabels, text |-> res.value.text]

FacetMenu == {FacetOf(res) : res \in RecordMenu}

SeqsUpTo(S, n) == UNION {[1..k -> S] : k \in 0..n}

(***************************************************************************)
(* export_segmentation_metrics                                             *)
(***************************************************************************)
VARIABLES
  download_resources,   \* the argument of the call
  pc,                   \* "tasks", "anns", "results", "done", "raised"
  nTasks, nAnns, nResults,   \* tasks, annotations, records consumed so far
  task,                 \* the task of the outer loop: [id, data]
  ann_id,               \* the annotation of the middle loop
  results,              \* its result records, as far as the pre-scan reads them
  ri,                   \* number of records the inner loop has handled
  label_by_region, textarea_by_region, processed_region_ids,
  rows_by_image,        \* a dict in insertion order: sequence of [key, rows]
  cur,                  \* the record the inner loop has just handled, and its outcome
  files,                \* the CSV files of tmp_dir: sequence of [name, rows]
  archive,              \* the returned ZIP: [made, files, readme]
  seen_urls,            \* history: the image references of the tasks so far
  sized,                \* history: some handled record carried explicit size metadata
  call,                 \* one call of a helper function on its own: [f, done, arg, res]
  http,                 \* one request to a view wrapped by require_turnstile
  project_import,       \* a ProjectImport / ProjectReimport row and the invocations on it
  export,               \* an Export row, the job queue and the worker
  reimport              \* one streaming reimport: its locals and its ProjectReimport row

\* The variables of export_segmentation_metrics.
exportVars ==
  << download_resources, pc, nTasks, nAnns, nResults, task, ann_id, results, ri,
     label_by_region, textarea_by_region, processed_region_ids, rows_by_image,
     cur, files, archive, seen_urls, sized >>

\* The variables of the background jobs.
jobVars == << project_import, export, reimport >>

vars == << exportVars, call, http, jobVars >>

\* No background job is running.
NoJob == [stage |-> "none"]
JobsIdle == project_import = NoJob /\ export = NoJob /\ reimport = NoJob

\* No helper is called on its own, no request is in progress.
NoCall == [f |-> "none", done |-> FALSE]
NoHttp == [stage |-> "none"]

NoTask == [id |-> 0, data |-> <<>>]
NoCur == [set |-> FALSE]
NoArchive == [made |-> FALSE, files |-> <<>>, readme |-> FALSE]

\* Lines 296-315: label_by_region after the pre-scan of results.
RECURSIVE PreScanLabels(_, _)
PreScanLabels(rs, acc) ==
  IF rs = <<>> THEN acc
  ELSE LET res == Head(rs)
           lb == IF res.brushlabels # <<>> THEN JoinLabels(res.brushlabels)
                 ELSE IF res.polygonlabels # <<>> THEN JoinLabels(res.polygonlabels)
                 ELSE <<>>
       IN PreScanLabels(Tail(rs),
            IF res.id # NoneStr /\ lb # <<>> THEN [acc EXCEPT ![res.id] = lb] ELSE acc)

\* Lines 308-315: textarea_by_region after the pre-scan of results.
RECURSIVE PreScanTextareas(_, _)
PreScanTextareas(rs, acc) ==
  IF rs = <<>> THEN acc
  ELSE LET res == Head(rs)
           parsed == ParseFloat(res.text[1])
       IN PreScanTextareas(Tail(rs),
            IF res.id # NoneStr /\ res.type = "textarea" /\ res.text # <<>> /\ parsed.ok
            THEN [acc EXCEPT ![res.id] = parsed.v] ELSE acc)

RegionKeys == {"r1", "r2"}

GroupKey_NoTask(filename, task_id) == filename

\* Line 416: f"{source.filename}__task_{task_id}"
GroupKey(filename, task_id) ==
  filename \o <<"_", "_", "t", "a", "s", "k", "_">> \o IntToStr(task_id)

\* Lines 423-425: the file name of a group.
SafeName(key) ==
  LET replaced == [i \in 1..Len(key) |->
                     IF key[i] = "/" \/ key[i] = "\\" THEN "_" ELSE key[i]]
      lowered == [i \in 1..Len(replaced) |-> LowerChar(replaced[i])]
  IN IF EndsWith(lowered, <<".", "c", "s", "v">>) THEN replaced
     ELSE replaced \o <<".", "c", "s", "v">>

\* Lines 354-358: the region id of a record; an anonymous record gets
\* f"{rtype}-{id(res)}", obj standing for the identity of the record object.
RegionIdOf(res, rtype, obj) ==
  IF res.id = NoneStr THEN [s |-> rtype, obj |-> obj] ELSE [s |-> res.id, obj |-> 0]

IsMask_Loose(res) == LowerType(res.type) # "polygonlabels"

IsMask(res) ==
  \/ LowerType(res.type) = "brushlabels"
  \/ res.value.format = "rle" /\ res.value.rle.t = "list"

IsPolygon(res) ==
  \/ LowerType(res.type) = "polygonlabels"
  \/ res.value.points.t = "list" /\ res.value.points.items # <<>>

\* "value.get('rle') or []", then list(rle): [ok, items]; list() of a truthy
\* int raises TypeError.
RleList(rle) ==
  IF rle.t = "list" THEN [ok |-> TRUE, items |-> rle.items]
  ELSE IF rle.t = "int" /\ rle.v # 0 THEN [ok |-> FALSE, items |-> <<>>]
  ELSE [ok |-> TRUE, items |-> <<>>]

LabelGet_AnyRegion(lbr, rid) == IF lbr["r1"] # <<>> THEN lbr["r1"] ELSE lbr["r2"]

\* label_by_region.get(region_id_str) (line 367, 376)
LabelGet(lbr, rid) == IF rid.obj = 0 /\ rid.s \in DOMAIN lbr THEN lbr[rid.s] ELSE <<>>

TextareaGet_Ignored(tbr, rid) == Absent

\* textarea_by_region.get(region_id_str) (line 384)
TextareaGet(tbr, rid) == IF rid.obj = 0 /\ rid.s \in DOMAIN tbr THEN tbr[rid.s] ELSE Absent

Skip(why) == [kind |-> "skip", why |-> why, row |-> <<>>]
Raise(why) == [kind |-> "raise", why |-> why, row |-> <<>>]

\* The empty string of a CSV cell; in a cell of numbers it is kept as the
\* same value as None.
EmptyCell == Absent

MeanCell_Truthy(m) == IF m.n # 0 THEN m ELSE EmptyCell

\* Lines 407-410: mean if mean is not None else ""
MeanCell(m) == IF m # Absent THEN m ELSE EmptyCell

RowMeans_PixelsFirst(tg, pil_img, mask) ==
  IF pil_img # NoImage /\ ComputeIntensities(pil_img, mask).ok
  THEN [gray |-> ComputeIntensities(pil_img, mask).gray, r |-> ComputeIntensities(pil_img, mask).r,
        g |-> ComputeIntensities(pil_img, mask).g, b |-> ComputeIntensities(pil_img, mask).b]
  ELSE [gray |-> tg, r |-> Absent, g |-> Absent, b |-> Absent]

\* Lines 383-394: the TextArea value of the region if there is one, else the
\* means of the opened image, else (no image, or _compute_intensities
\* raised) four None.
RowMeans(tg, pil_img, mask) ==
  IF tg # Absent THEN [gray |-> tg, r |-> Absent, g |-> Absent, b |-> Absent]
  ELSE IF pil_img # NoImage /\ ComputeIntensities(pil_img, mask).ok
  THEN [gray |-> ComputeIntensities(pil_img, mask).gray, r |-> ComputeIntensities(pil_img, mask).r,
        g |-> ComputeIntensities(pil_img, mask).g, b |-> ComputeIntensities(pil_img, mask).b]
  ELSE [gray |-> Absent, r |-> Absent, g |-> Absent, b |-> Absent]

\* Lines 381-413: the row of a decoded region.
BuildRow(tk, aid, res, rid, source, dl, tbr, mask, shape_type, label, poly_points_px) ==
  LET bb == ComputeBboxAndArea(mask)
      means == RowMeans(TextareaGet(tbr, rid), OpenImage(source, dl), mask)
  IN [image_filename |-> source.filename, task_id |-> tk.id, annotation_id |-> aid,
      region_id |-> rid, label |-> label, shape_type |-> shape_type,
      bbox_x_px |-> bb.x, bbox_y_px |-> bb.y, x_length_px |-> bb.w, y_length_px |-> bb.h,
      area_px |-> bb.area,
      mean_gray |-> MeanCell(means.gray), mean_r |-> MeanCell(means.r),
      mean_g |-> MeanCell(means.g), mean_b |-> MeanCell(means.b),
      polygon_points_px |-> poly_points_px]

\* Lines 362-379: decode by shape.
HandleShape(tk, aid, res, rid, source, dl, lbr, tbr, width, height) ==
  IF IsMask(res)
  THEN LET rl == RleList(res.value.rle)
           dec == DecodeBrushRleToMask(rl.items, width, height)
           own == FirstLabelFromResultValue(res.value, "brushlabels")
       IN IF ~rl.ok \/ ~dec.ok THEN Skip("decode")
          ELSE [kind |-> "row", why |-> "",
                row |-> << BuildRow(tk, aid, res, rid, source, dl, tbr, dec.mask, "mask",
                                    IF own # <<>> THEN own ELSE LabelGet(lbr, rid), <<>>) >>]
  ELSE IF IsPolygon(res)
  THEN IF PolygonPointsRaise(res.value.points) THEN Raise("polygon")
       ELSE LET px == PolygonPointsPercentToPx(PointsOrEmpty(res.value.points), width, height)
                own == FirstLabelFromResultValue(res.value, "polygonlabels")
            IN [kind |-> "row", why |-> "",
                row |-> << BuildRow(tk, aid, res, rid, source, dl, tbr,
                                    RasterizePolygon(px, width, height), "polygon",
                                    IF own # <<>> THEN own ELSE LabelGet(lbr, rid), px) >>]
  ELSE Skip("shape")

\* Lines 331-345: original_width and original_height of a record, from its
\* metadata, else (only with download_resources) from opening the image.
ResolveSize(res, source, dl) ==
  LET ow == IF res.original_width # 0 THEN res.original_width ELSE res.value.original_width
      oh == IF res.original_height # 0 THEN res.original_height ELSE res.value.original_height
  IN IF (ow = 0 \/ oh = 0) /\ dl /\ OpenImage(source, dl) # NoImage
     THEN <<OpenImage(source, dl).w, OpenImage(source, dl).h>>
     ELSE <<ow, oh>>

AlreadyProcessed_Never(rid, processed) == FALSE

\* Line 359: region_id_str in processed_region_ids
AlreadyProcessed(rid, processed) == rid \in processed

\* Lines 319-418: the body of the inner loop for one record.
HandleResult(tk, aid, res, obj, dl, lbr, tbr, processed) ==
  LET image_url == ImageUrlOf(tk.data, res.to_name) IN
  IF image_url = UrlEmpty THEN Skip("no_url")
  ELSE LET source == ResolveImageSource(image_url)
           size == ResolveSize(res, source, dl)
       IN IF size[1] = 0 \/ size[2] = 0 THEN Skip("no_size")
          ELSE LET rid == RegionIdOf(res, LowerType(res.type), obj)
               IN IF AlreadyProcessed(rid, processed) THEN Skip("duplicate")
                  ELSE HandleShape(tk, aid, res, rid, source, dl, lbr, tbr, size[1], size[2])

AppendRow_Prepend(rbi, key, row) ==
  IF \E i \in 1..Len(rbi) : rbi[i].key = key
  THEN [i \in 1..Len(rbi) |->
          IF rbi[i].key = key THEN [rbi[i] EXCEPT !.rows = <<row>> \o @] ELSE rbi[i]]
  ELSE Append(rbi, [key |-> key, rows |-> <<row>>])

\* rows_by_image[key].append(row)
AppendRow(rbi, key, row) ==
  IF \E i \in 1..Len(rbi) : rbi[i].key = key
  THEN [i \in 1..Len(rbi) |->
          IF rbi[i].key = key THEN [rbi[i] EXCEPT !.rows = Append(@, row)] ELSE rbi[i]]
  ELSE Append(rbi, [key |-> key, rows |-> <<row>>])

\* open(csv_path, "w") and the rows written: a file of that name is replaced.
WriteFile(fs, name, rows) ==
  IF \E i \in 1..Len(fs) : fs[i].name = name
  THEN [i \in 1..Len(fs) |-> IF fs[i].name = name THEN [name |-> name, rows |-> rows] ELSE fs[i]]
  ELSE Append(fs, [name |-> name, rows |-> rows])

Init ==
  /\ download_resources \in BOOLEAN
  /\ pc = "tasks"
  /\ nTasks = 0 /\ nAnns = 0 /\ nResults = 0
  /\ task = NoTask
  /\ ann_id = 0
  /\ results = <<>>
  /\ ri = 0
  /\ label_by_region = [k \in RegionKeys |-> <<>>]
  /\ textarea_by_region = [k \in RegionKeys |-> Absent]
  /\ processed_region_ids = {}
  /\ rows_by_image = <<>>
  /\ cur = NoCur
  /\ files = <<>>
  /\ archive = NoArchive
  /\ seen_urls = {}
  /\ sized = FALSE
  /\ call = NoCall
  /\ http = NoHttp
  /\ JobsIdle

MarkProcessed_Never(processed, out) == processed

\* Line 418: processed_region_ids.add(region_id_str), reached only by a
\* record that emitted its row.
MarkProcessed(processed, out) ==
  IF out.kind = "row" THEN processed \cup {out.row[1].region_id} ELSE processed

\* "for task in tasks": the next task of the batch.
BeginTask ==
  /\ pc = "tasks"
  /\ nTasks < MaxTasks
  /\ \E data \in DataMenu :
       /\ task' = [id |-> 10 * nTasks + 1, data |-> data]
       /\ seen_urls' = seen_urls \cup {data[i].ref : i \in 1..Len(data)}
  /\ nTasks' = nTasks + 1
  /\ pc' = "anns"
  /\ UNCHANGED << download_resources, nAnns, nResults, ann_id, results, ri, label_by_region,
                  textarea_by_region, processed_region_ids, rows_by_image, cur, files,
                  archive, sized >>
  /\ UNCHANGED << call, http, jobVars >>

\* "for ann in annotations": the next annotation, its pre-scan (lines 293-315)
\* and the fresh processed_region_ids (line 317).
BeginAnnotation ==
  /\ pc = "anns"
  /\ nAnns < MaxAnns
  /\ \E rs \in SeqsUpTo(FacetMenu, MaxResults - nResults) :
       /\ results' = rs
       /\ label_by_region' = PreScanLabels(rs, [k \in RegionKeys |-> <<>>])
       /\ textarea_by_region' = PreScanTextareas(rs, [k \in RegionKeys |-> Absent])
  /\ nAnns' = nAnns + 1
  /\ ann_id' = nAnns + 1
  /\ processed_region_ids' = {}
  /\ ri' = 0
  /\ pc' = "results"
  /\ UNCHANGED << download_resources, nTasks, nResults, task, rows_by_image, cur, files,
                  archive, seen_urls, sized >>
  /\ UNCHANGED << call, http, jobVars >>

\* One pass of "for res in results" (lines 318-418), on the record after
\* the ri records already handled.
ProcessResult ==
  /\ pc = "results"
  /\ ri < Len(results)
  /\ \E res \in {r \in RecordMenu : FacetOf(r) = results[ri + 1]} :
     \E out \in {HandleResult(task, ann_id, res, nResults + 1, download_resources,
                               label_by_region, textarea_by_region, processed_region_ids)} :
          /\ cur' = [set |-> TRUE, res |-> res, out |-> out,
                     size |-> ResolveSize(res, ResolveImageSource(ImageUrlOf(task.data, res.to_name)),
                                          download_resources)]
          /\ sized' = (sized \/ res.original_width # 0 \/ res.original_height # 0
                          \/ res.value.original_width # 0 \/ res.value.original_height # 0)
          /\ rows_by_image' =
               IF out.kind = "row"
               THEN AppendRow(rows_by_image,
                              GroupKey(out.row[1].image_filename, task.id), out.row[1])
               ELSE rows_by_image
          /\ processed_region_ids' = MarkProcessed(processed_region_ids, out)
          /\ pc' = IF out.kind = "raise" THEN "raised" ELSE "results"
  /\ ri' = ri + 1
  /\ nResults' = nResults + 1
  /\ UNCHANGED << download_resources, nTasks, nAnns, task, ann_id, results,
                  label_by_region, textarea_by_region, files, archive, seen_urls >>
  /\ UNCHANGED << call, http, jobVars >>

\* The inner loop is exhausted.  The locals of the finished annotation are
\* dead from here on (each is assigned afresh at lines 291-317 before any
\* use) and are cleared.
EndAnnotation ==
  /\ pc = "results"
  /\ ri = Len(results)
  /\ pc' = "anns"
  /\ ann_id' = 0
  /\ results' = <<>>
  /\ ri' = 0
  /\ label_by_region' = [k \in RegionKeys |-> <<>>]
  /\ textarea_by_region' = [k \in RegionKeys |-> Absent]
  /\ processed_region_ids' = {}
  /\ cur' = NoCur
  /\ UNCHANGED << download_resources, nTasks, nAnns, nResults, task, rows_by_image,
                  files, archive, seen_urls, sized >>
  /\ UNCHANGED << call, http, jobVars >>

\* The annotations of the task are exhausted; task_id and data are dead.
EndTask ==
  /\ pc = "anns"
  /\ pc' = "tasks"
  /\ task' = NoTask
  /\ UNCHANGED << download_resources, nTasks, nAnns, nResults, ann_id, results, ri,
                  label_by_region, textarea_by_region, processed_region_ids, rows_by_image,
                  cur, files, archive, seen_urls, sized >>
  /\ UNCHANGED << call, http, jobVars >>

\* Lines 421-432: every group written to its CSV file, in the order of the dict.
RECURSIVE WriteCsvs(_, _)
WriteCsvs(rbi, fs) ==
  IF rbi = <<>> THEN fs
  ELSE WriteCsvs(Tail(rbi), WriteFile(fs, SafeName(Head(rbi).key), Head(rbi).rows))

ProducedAny_Always(rbi) == TRUE

\* Line 435: any(rows_by_image.values())
ProducedAny(rbi) == \E i \in 1..Len(rbi) : rbi[i].rows # <<>>

\* The tasks are exhausted: the CSVs are written (lines 420-432), the README
\* when no rows were produced (434-441), and the ZIP is returned (443-451).
Package ==
  /\ pc = "tasks"
  /\ files' = WriteCsvs(rows_by_image, <<>>)
  /\ archive' = [made |-> TRUE, files |-> files', readme |-> ~ProducedAny(rows_by_image)]
  /\ pc' = "done"
  /\ UNCHANGED << download_resources, nTasks, nAnns, nResults, task, ann_id, results, ri,
                  label_by_region, textarea_by_region, processed_region_ids, rows_by_image,
                  cur, seen_urls, sized >>
  /\ UNCHANGED << call, http, jobVars >>

Next ==
  \/ BeginTask
  \/ BeginAnnotation
  \/ ProcessResult
  \/ EndAnnotation
  \/ EndTask
  \/ Package

Spec == Init /\ [][Next]_vars

(***************************************************************************)
(* The helper functions, each called on its own                            *)
(***************************************************************************)
\* Bounds of the masks the helpers are called on.
MaxWidth == 3
MaxHeight == 2

\* The boolean masks of every shape within the bounds.
Masks ==
  UNION {[1..h -> [1..w -> BOOLEAN]] : w \in 1..MaxWidth, h \in 1..MaxHeight}

\* mask.flatten(): the cells in row-major order.
Flatten(mask) == ConcatAll(mask)

\* The run lengths of a sequence of cells, the first run counting cells of
\* the given value (it is 0 when the first cell has the other value).
RECURSIVE RunLengths(_, _, _)
RunLengths(cells, value, run) ==
  IF cells = <<>> THEN <<run>>
  ELSE IF Head(cells) = value THEN RunLengths(Tail(cells), value, run + 1)
  ELSE <<run>> \o RunLengths(Tail(cells), ~value, 1)

\* The background-first run-length list of a mask.
EncodeRle(mask) ==
  LET runs == RunLengths(Flatten(mask), FALSE, 0)
  IN [i \in 1..Len(runs) |-> IntE(runs[i])]

\* The list of the docstring of _decode_brush_rle_to_mask (line 58).
ExampleRle == <<IntE(0), IntE(1), IntE(1), IntE(2), IntE(3)>>

\* Bound of the run-length lists the decoder is called on, and their counts.
MaxRleLen == 3
RleCounts == {IntE(c) : c \in {-1, 0, 1, 2, 4}}

\* The arguments of the calls of _decode_brush_rle_to_mask: the example
\* over 7 cells, the encoding of every mask at its own shape (src), and
\* every list of counts at every shape.
DecodeInputs ==
  {[rle |-> ExampleRle, width |-> 7, height |-> 1, src |-> <<>>]}
    \cup {[rle |-> EncodeRle(m), width |-> MaskWidth(m), height |-> Len(m), src |-> m] :
            m \in Masks}
    \cup {[rle |-> l, width |-> w, height |-> h, src |-> <<>>] :
            l \in SeqsUpTo(RleCounts, MaxRleLen), w \in 1..MaxWidth, h \in 1..MaxHeight}

\* The arguments of the calls of _compute_bbox_and_area.
BboxInputs == {[mask |-> m] : m \in Masks}

\* Opened images of one row of two pixels, in the modes "L", "I", "I;16",
\* "F" and "I;16B" (one channel) and "RGB" (three channels).
HelperImages ==
  {[w |-> 2, h |-> 1, mode |-> m, px |-> << << <<a, a, a>>, <<b, b, b>> >> >>] :
     m \in {"L", "I", "I;16", "F", "I;16B"}, a \in {0, 9}, b \in {0, 9}}
    \cup {[w |-> 2, h |-> 1, mode |-> "RGB", px |-> << <<a, b>> >>] :
            a \in {<<0, 0, 0>>, <<10, 20, 30>>}, b \in {<<0, 0, 0>>, <<10, 20, 30>>}}

\* The arguments of the calls of _compute_intensities.
IntensityInputs == {[image |-> i, mask |-> m] : i \in HelperImages, m \in Masks}

CallInputs ==
  {[f |-> "decode", done |-> FALSE, arg |-> a, res |-> <<>>] : a \in DecodeInputs}
    \cup {[f |-> "bbox", done |-> FALSE, arg |-> a, res |-> <<>>] : a \in BboxInputs}
    \cup {[f |-> "intensities", done |-> FALSE, arg |-> a, res |-> <<>>] :
            a \in IntensityInputs}

\* export_segmentation_metrics is not running.
ExportIdle ==
  /\ download_resources = FALSE
  /\ pc = "tasks"
  /\ nTasks = 0 /\ nAnns = 0 /\ nResults = 0
  /\ task = NoTask
  /\ ann_id = 0
  /\ results = <<>>
  /\ ri = 0
  /\ label_by_region = [k \in RegionKeys |-> <<>>]
  /\ textarea_by_region = [k \in RegionKeys |-> Absent]
  /\ processed_region_ids = {}
  /\ rows_by_image = <<>>
  /\ cur = NoCur
  /\ files = <<>>
  /\ archive = NoArchive
  /\ seen_urls = {}
  /\ sized = FALSE

HelperInit ==
  /\ ExportIdle
  /\ http = NoHttp
  /\ JobsIdle
  /\ call \in CallInputs

\* _decode_brush_rle_to_mask(rle, width, height)
CallDecode ==
  /\ call.f = "decode"
  /\ ~call.done
  /\ call' = [call EXCEPT !.done = TRUE,
                          !.res = DecodeBrushRleToMask(call.arg.rle, call.arg.width,
                                                       call.arg.height)]
  /\ UNCHANGED << exportVars, http, jobVars >>

\* _compute_bbox_and_area(mask)
CallBboxAndArea ==
  /\ call.f = "bbox"
  /\ ~call.done
  /\ call' = [call EXCEPT !.done = TRUE, !.res = ComputeBboxAndArea(call.arg.mask)]
  /\ UNCHANGED << exportVars, http, jobVars >>

\* Image.convert("RGB") (line 126) is not supported for every one-channel
\* mode by every Pillow build: for such a mode the call either converts or
\* raises ValueError.
ConvertRgbMayRaise(image) == image.mode \in {"I;16B"}

\* What a call of _compute_intensities can yield.
IntensityOutcomes(image, mask) ==
  {ComputeIntensities(image, mask)}
    \cup IF ConvertRgbMayRaise(image) /\ MaskSum(mask) > 0
         THEN {[ok |-> FALSE, gray |-> Absent, r |-> Absent, g |-> Absent, b |-> Absent]}
         ELSE {}

\* _compute_intensities(image, mask)
CallIntensities ==
  /\ call.f = "intensities"
  /\ ~call.done
  /\ \E out \in IntensityOutcomes(call.arg.image, call.arg.mask) :
       call' = [call EXCEPT !.done = TRUE, !.res = out]
  /\ UNCHANGED << exportVars, http, jobVars >>

\* Lines 407-410: the four cells of the row, from the means of a call of
\* _compute_intensities that returned.
WriteMeanCells ==
  /\ call.f = "intensities"
  /\ call.done
  /\ call.res.ok
  /\ call' = [f |-> "cells", done |-> TRUE, arg |-> call.arg, res |-> call.res,
              cells |-> [gray |-> MeanCell(call.res.gray), r |-> MeanCell(call.res.r),
                         g |-> MeanCell(call.res.g), b |-> MeanCell(call.res.b)]]
  /\ UNCHANGED << exportVars, http, jobVars >>

HelperNext ==
  \/ CallDecode
  \/ CallBboxAndArea
  \/ CallIntensities
  \/ WriteMeanCells

SpecHelper == HelperInit /\ [][HelperNext]_vars

(***************************************************************************)
(* turnstile/utils.py and turnstile/decorators.py: require_turnstile       *)
(*                                                                         *)
(* A str of a request, a setting or the environment is a TLA+ string, None *)
(* is "<None>"; the setting TURNSTILE_ENABLED is written as Python prints  *)
(* it ("None", "True", "False").                                           *)
(***************************************************************************)
None == "<None>"

\* Truth value of a str or None.
Truthy(x) == x # None /\ x # ""

\* a or b
Or(a, b) == IF Truthy(a) THEN a ELSE b

\* value.lower() of the values of the environment variable that are explored.
Lower(value) ==
  CASE value = "TRUE" -> "true"
    [] value = "On" -> "on"
    [] OTHER -> value

\* utils.py lines 15-18
BoolEnv(value, default) ==
  IF value = None THEN default ELSE Lower(value) \in {"1", "true", "yes", "on"}

\* utils.py lines 21-26: is_enabled(), from the setting and the environment.
IsEnabled(setting, env) ==
  IF setting = "None" THEN BoolEnv(env, FALSE) ELSE setting = "True"

\* utils.py lines 29-32: the setting, else the environment, else "".
GetSecret(setting, env) == Or(Or(setting, IF env = None THEN "" ELSE env), "")

\* decorators.py lines 17-21: the first address of X-Forwarded-For (a list
\* of addresses), else REMOTE_ADDR.
ClientIp(xff, remote_addr) == IF xff # <<>> THEN xff[1] ELSE remote_addr

\* The replies of the siteverify endpoint: the call raises (timeout,
\* connection error), or answers with a body that is not JSON, or with JSON
\* that is not an object, or with a JSON object and its "success" member.
Replies ==
  { [kind |-> "raises", success |-> "absent"],
    [kind |-> "text", success |-> "absent"],
    [kind |-> "json_list", success |-> "absent"] }
  \cup { [kind |-> "json", success |-> v] : v \in {"true", "false", "absent"} }

\* No request was sent to siteverify.
NotPosted == [sent |-> FALSE]

VerifyTurnstile_ErrorsPass(token, ip, enabled, secret, reply) ==
  IF ~enabled THEN [ok |-> TRUE, info |-> "skipped", posted |-> NotPosted]
  ELSE IF ~Truthy(token) THEN [ok |-> FALSE, info |-> "missing_token", posted |-> NotPosted]
  ELSE IF ~Truthy(secret) THEN [ok |-> FALSE, info |-> "missing_secret", posted |-> NotPosted]
  ELSE [ok |-> ~(reply.kind = "json" /\ reply.success # "true"),
        info |-> reply.kind,
        posted |-> [sent |-> TRUE, secret |-> secret, response |-> token, remoteip |-> ip]]

\* utils.py lines 35-67: verify_turnstile(token, ip); enabled is what
\* is_enabled() returns, secret what _get_secret() returns, reply what
\* siteverify does with the request.
VerifyTurnstile(token, ip, enabled, secret, reply) ==
  IF ~enabled THEN [ok |-> TRUE, info |-> "skipped", posted |-> NotPosted]
  ELSE IF ~Truthy(token) THEN [ok |-> FALSE, info |-> "missing_token", posted |-> NotPosted]
  ELSE IF ~Truthy(secret) THEN [ok |-> FALSE, info |-> "missing_secret", posted |-> NotPosted]
  ELSE LET posted == [sent |-> TRUE, secret |-> secret, response |-> token, remoteip |-> ip]
       IN CASE reply.kind = "raises" ->
                 [ok |-> FALSE, info |-> "verification_exception", posted |-> posted]
            [] reply.kind = "json_list" ->
                 \* info.get on a list raises inside the try block
                 [ok |-> FALSE, info |-> "verification_exception", posted |-> posted]
            [] reply.kind = "text" ->
                 [ok |-> FALSE, info |-> "status_code", posted |-> posted]
            [] OTHER ->
                 [ok |-> reply.success = "true", info |-> "json", posted |-> posted]

\* decorators.py lines 47-51: the token of the request.
TokenOf(post_dash, post_underscore, header) == Or(Or(post_dash, post_underscore), header)

\* The requests and configurations explored.
TurnstileInputs ==
  [stage : {"request"},
   setting_enabled : {"None", "True", "False"},
   env_enabled : {None, "On", "0"},
   setting_secret : {"", "k"},
   env_secret : {None, "k"},
   method : {"GET", "POST", "PUT"},
   post_dash : {None, "", "t1"},
   post_underscore : {None, "t2"},
   header : {None, "", "t3"},
   xff : {<<>>, <<"c", "p">>},
   reply : Replies]

TurnstileInit ==
  /\ ExportIdle
  /\ call = NoCall
  /\ JobsIdle
  /\ http \in TurnstileInputs

\* What the wrapped view returns when it is invoked.
ViewResponse == [status |-> 200, body |-> "view"]

\* decorators.py lines 43-60: _wrapped(request), one request from its
\* arrival to its response.
Wrapped ==
  /\ http.stage = "request"
  /\ LET enabled == IsEnabled(http.setting_enabled, http.env_enabled)
         token == TokenOf(http.post_dash, http.post_underscore, http.header)
         verified == VerifyTurnstile(token, ClientIp(http.xff, "r"), enabled,
                                     GetSecret(http.setting_secret, http.env_secret),
                                     http.reply)
         done(response, view_called, posted) ==
           [http EXCEPT !.stage = "responded"] @@
             [response |-> response, view_called |-> view_called, posted |-> posted]
     IN http' =
          IF ~enabled \/ http.method # "POST" THEN done(ViewResponse, TRUE, NotPosted)
          ELSE IF ~Truthy(token)
          THEN done([status |-> 400, body |-> "Turnstile token missing"], FALSE, NotPosted)
          ELSE IF ~verified.ok
          THEN done([status |-> 403, body |-> "Turnstile verification failed"], FALSE,
                    verified.posted)
          ELSE done(ViewResponse, TRUE, verified.posted)
  /\ UNCHANGED << exportVars, call, jobVars >>

TurnstileNext == Wrapped

SpecTurnstile == TurnstileInit /\ [][TurnstileNext]_vars

(***************************************************************************)
(* data_import/functions.py: async_import_background and                   *)
(* async_reimport_background, invoked several times for one id             *)
(*                                                                         *)
(* The status check of lines 26-36 (255-267) is a transaction of a SELECT  *)
(* without a lock and an UPDATE.  What a second transaction that read the  *)
(* row before the first one committed does at its UPDATE depends on the    *)
(* database of the deployment: PostgreSQL (READ COMMITTED) makes it wait   *)
(* for the row lock and then update; SQLite refuses the write ("database   *)
(* is locked"), and the invocation ends with that exception.               *)
(***************************************************************************)
\* Bound of the invocations for one id.
MaxInvocations == 2

Invocations == 1..MaxInvocations

\* The explored rows, databases and functions.
ImportInputs ==
  [stage : {"running"},
   kind : {"import", "reimport"},
   backend : {"postgresql", "sqlite"},
   exists : BOOLEAN,
   status : {"created", "in_progress", "completed"},
   writer : {0},
   writes : {0},
   loads : {0},
   inv : {[i \in Invocations |-> "start"]}]

ImportInit ==
  /\ ExportIdle
  /\ call = NoCall
  /\ http = NoHttp
  /\ export = NoJob
  /\ reimport = NoJob
  /\ project_import \in ImportInputs

\* Lines 26-33 (255-264): the transaction begins, the row is read, and the
\* invocation returns unless the row exists with status CREATED.
GetAndCheck(i) ==
  /\ project_import.inv[i] = "start"
  /\ project_import' =
       [project_import EXCEPT !.inv[i] =
          IF project_import.exists /\ project_import.status = "created"
          THEN "in_transaction" ELSE "returned"]
  /\ UNCHANGED << exportVars, call, http, export, reimport >>

\* Lines 34-35 (265-266): status = IN_PROGRESS; save(update_fields).  The
\* UPDATE takes the write lock of the row; while another transaction holds
\* it, PostgreSQL makes the statement wait and SQLite raises.
SaveInProgress(i) ==
  /\ project_import.inv[i] = "in_transaction"
  /\ IF project_import.writer = 0
     THEN project_import' = [project_import EXCEPT !.inv[i] = "saved", !.writer = i]
     ELSE /\ project_import.backend = "sqlite"
          /\ project_import' = [project_import EXCEPT !.inv[i] = "raised"]
  /\ UNCHANGED << exportVars, call, http, export, reimport >>

\* The end of "with transaction.atomic()": the commit.  SQLite commits only
\* when no other transaction still reads the database.
Commit(i) ==
  /\ project_import.inv[i] = "saved"
  /\ project_import.backend = "sqlite"
       => \A j \in Invocations \ {i} : project_import.inv[j] # "in_transaction"
  /\ project_import' =
       [project_import EXCEPT !.inv[i] = "passed", !.writer = 0,
                              !.status = "in_progress", !.writes = @ + 1]
  /\ UNCHANGED << exportVars, call, http, export, reimport >>

\* Lines 38-104 (269-323): the tasks are loaded and created and the row is
\* saved as COMPLETED.
LoadTasks(i) ==
  /\ project_import.inv[i] = "passed"
  /\ project_import' =
       [project_import EXCEPT !.inv[i] = "done", !.loads = @ + 1,
                              !.status = "completed", !.writes = @ + 1]
  /\ UNCHANGED << exportVars, call, http, export, reimport >>

ImportNext ==
  \E i \in Invocations :
    \/ GetAndCheck(i)
    \/ SaveInProgress(i)
    \/ Commit(i)
    \/ LoadTasks(i)

SpecImport == ImportInit /\ [][ImportNext]_vars

(***************************************************************************)
(* data_export/mixins.py: run_file_exporting, export_to_file,              *)
(* export_background and set_export_background_failure on one Export row   *)
(***************************************************************************)
\* Bound of the calls of run_file_exporting on the row.
MaxCalls == 3

\* The explored rows (a new one, and ones that an earlier export left) and
\* deployments (with and without redis).
FileExportInputs ==
  [stage : {"running"},
   redis : BOOLEAN,
   row : {[status |-> "created", finished_at |-> "unset"],
          [status |-> "completed", finished_at |-> "set"],
          [status |-> "failed", finished_at |-> "set"]},
   queued : {0},
   worker : {"idle"},
   calls : {0},
   outcomes : {<<>>}]

FileExportInit ==
  /\ ExportIdle
  /\ call = NoCall
  /\ http = NoHttp
  /\ project_import = NoJob
  /\ reimport = NoJob
  /\ export \in FileExportInputs

\* Lines 269-296, export_to_file from its try to the end of its finally:
\* the row after data generation and saving went well (ok) or raised.
ExportToFile(row, ok) ==
  [status |-> IF ok THEN "completed" ELSE "failed", finished_at |-> "set"]

\* Lines 298-322: run_file_exporting.  Without redis export_to_file runs
\* inside the call.
RunFileExporting ==
  /\ export.calls < MaxCalls
  /\ IF export.row.status = "in_progress"
     THEN export' = [export EXCEPT !.calls = @ + 1]
     ELSE IF export.redis
     THEN export' = [export EXCEPT !.calls = @ + 1, !.row.status = "in_progress",
                                   !.queued = @ + 1]
     ELSE \E ok \in BOOLEAN :
            export' = [export EXCEPT !.calls = @ + 1,
                                     !.row = ExportToFile(export.row, ok),
                                     !.outcomes = Append(@, IF ok THEN "ok" ELSE "raised")]
  /\ UNCHANGED << exportVars, call, http, project_import, reimport >>

\* Lines 515-524: a worker takes a job of the queue, export_background gets
\* the row and calls export_to_file.
ExportBackground ==
  /\ export.queued > 0
  /\ export.worker = "idle"
  /\ export' = [export EXCEPT !.queued = @ - 1, !.worker = "try"]
  /\ UNCHANGED << exportVars, call, http, project_import, reimport >>

\* Lines 269-293: the try of export_to_file in the job, up to the save of
\* the status (COMPLETED at 287-288, FAILED at 291-292).
ExportToFileTry ==
  /\ export.worker = "try"
  /\ \E ok \in BOOLEAN :
       export' = [export EXCEPT !.row.status = ExportToFile(export.row, ok).status,
                                !.worker = "finally",
                                !.outcomes = Append(@, IF ok THEN "ok" ELSE "raised")]
  /\ UNCHANGED << exportVars, call, http, project_import, reimport >>

\* Lines 294-296: the finally of export_to_file in the job.
ExportToFileFinally ==
  /\ export.worker = "finally"
  /\ export' = [export EXCEPT !.row.finished_at = ExportToFile(export.row, TRUE).finished_at,
                              !.worker = "idle"]
  /\ UNCHANGED << exportVars, call, http, project_import, reimport >>

\* Lines 527-531: the job fails while export_to_file generates the data (its
\* process is killed), and rq calls set_export_background_failure.
SetExportBackgroundFailure ==
  /\ export.worker = "try"
  /\ export' = [export EXCEPT !.row.status = "failed", !.worker = "idle",
                              !.outcomes = Append(@, "job_failed")]
  /\ UNCHANGED << exportVars, call, http, project_import, reimport >>

\* What the rq worker does.
WorkerStep ==
  \/ ExportBackground
  \/ ExportToFileTry
  \/ ExportToFileFinally
  \/ SetExportBackgroundFailure

FileExportNext ==
  \/ RunFileExporting
  \/ WorkerStep

\* The worker keeps working while there is a job.
SpecFileExport == FileExportInit /\ [][FileExportNext]_vars /\ WF_vars(WorkerStep)

(***************************************************************************)
(* data_import/functions.py: _async_reimport_background_streaming          *)
(***************************************************************************)
\* Bound of the batches that the uploaded files yield.
MaxBatches == 3

\* A batch of load_tasks_from_uploaded_files_streaming: the number of its
\* tasks, the annotations and predictions that saving it creates, the
\* columns it reports, and whether its tasks pass the serializer.
Batch(tasks, annotations, predictions, columns, valid) ==
  [tasks |-> tasks, annotations |-> annotations, predictions |-> predictions,
   columns |-> columns, valid |-> valid]

BatchMenu ==
  { Batch(0, 0, 0, {"a"}, TRUE),
    Batch(1, 0, 0, {}, TRUE),
    Batch(1, 1, 0, {"a"}, TRUE),
    Batch(2, 1, 2, {"b"}, TRUE),
    Batch(2, 0, 1, {"a", "b"}, TRUE),
    Batch(1, 2, 1, {"a", "c"}, TRUE),
    Batch(1, 0, 0, {"a"}, FALSE) }

\* The locals of lines 143-148 and the row as async_reimport_background
\* hands it over (status IN_PROGRESS, statistics not yet written).
ReimportStart ==
  [stage |-> "start",
   total_task_count |-> 0, total_annotation_count |-> 0, total_prediction_count |-> 0,
   all_data_columns |-> {},
   batches |-> <<>>,
   row |-> [status |-> "in_progress", task_count |-> 0, annotation_count |-> 0,
            prediction_count |-> 0, data_columns |-> {}],
   raised |-> FALSE]

ReimportInit ==
  /\ ExportIdle
  /\ call = NoCall
  /\ http = NoHttp
  /\ project_import = NoJob
  /\ export = NoJob
  /\ reimport = ReimportStart

\* Lines 246-252: the except block: the row is saved as FAILED and the
\* exception is raised again.
ReimportFailed(r) ==
  [r EXCEPT !.stage = "failed", !.row.status = "failed", !.raised = TRUE]

\* Lines 151-152: the old tasks are removed, or the removal raises.
RemoveOldTasks ==
  /\ reimport.stage = "start"
  /\ \E ok \in BOOLEAN :
       reimport' = IF ok THEN [reimport EXCEPT !.stage = "batches"]
                   ELSE ReimportFailed(reimport)
  /\ UNCHANGED << exportVars, call, http, project_import, export >>

\* Lines 192-196: all_data_columns after a batch.
UpdateColumns(all_data_columns, batch_columns) ==
  IF batch_columns # {}
  THEN IF all_data_columns = {} THEN batch_columns
       ELSE all_data_columns \cap batch_columns
  ELSE all_data_columns

\* Lines 156-204: one pass of the loop over the batches.
ProcessBatch ==
  /\ reimport.stage = "batches"
  /\ Len(reimport.batches) < MaxBatches
  /\ \E b \in BatchMenu :
       reimport' =
         IF b.tasks = 0
         THEN [reimport EXCEPT !.batches = Append(@, b)]
         ELSE IF ~b.valid
         THEN ReimportFailed([reimport EXCEPT !.batches = Append(@, b)])
         ELSE [reimport EXCEPT
                 !.batches = Append(@, b),
                 !.total_task_count = @ + b.tasks,
                 !.total_annotation_count = @ + b.annotations,
                 !.total_prediction_count = @ + b.predictions,
                 !.all_data_columns = UpdateColumns(@, b.columns)]
  /\ UNCHANGED << exportVars, call, http, project_import, export >>

\* Lines 206-244: the batches are exhausted: webhooks and counters, the
\* statistics and COMPLETED are saved, and post_process_reimport runs or
\* raises.
FinishReimport ==
  /\ reimport.stage = "batches"
  /\ \E ok \in BOOLEAN :
       \E saved \in {[reimport EXCEPT
                        !.stage = "completed",
                        !.row = [status |-> "completed",
                                 task_count |-> reimport.total_task_count,
                                 annotation_count |-> reimport.total_annotation_count,
                                 prediction_count |-> reimport.total_prediction_count,
                                 data_columns |-> reimport.all_data_columns]]} :
         reimport' = IF ok THEN saved ELSE ReimportFailed(saved)
  /\ UNCHANGED << exportVars, call, http, project_import, export >>

ReimportNext ==
  \/ RemoveOldTasks
  \/ ProcessBatch
  \/ FinishReimport

SpecReimport == ReimportInit /\ [][ReimportNext]_vars

\* ---------------------------------------------------------------------
\* Properties of the segmentation export.

\* The positions <<table, row>> of the rows emitted so far.
RowPositions ==
  {p \in (1..Len(rows_by_image)) \X (1..MaxResults + 1) : p[2] <= Len(rows_by_image[p[1]].rows)}

RowAt(p) == rows_by_image[p[1]].rows[p[2]]

\* The number of rows emitted for a region id of an annotation.
RowsFor(aid, rid) ==
  Cardinality({p \in RowPositions : RowAt(p).annotation_id = aid /\ RowAt(p).region_id = rid})

\* The region id of the record just handled, and its image reference.
CurRid == RegionIdOf(cur.res, LowerType(cur.res.type), nResults)
CurUrl == ImageUrlOf(task.data, cur.res.to_name)
CurImage == OpenImage(ResolveImageSource(CurUrl), download_resources)

\* The record just handled carries both dimensions as explicit metadata.
CurExplicitSize ==
  /\ cur.res.original_width # 0 \/ cur.res.value.original_width # 0
  /\ cur.res.original_height # 0 \/ cur.res.value.original_height # 0

\* C1: within one annotation at most one row is emitted per region id, and a
\* record whose id already has a row neither emits a second row nor reaches
\* the decoding of its shape.
C1_OneRowPerRegionId ==
  /\ \A i, j \in 1..Len(rows_by_image) :
       \A k \in 1..Len(rows_by_image[i].rows), l \in 1..Len(rows_by_image[j].rows) :
         (rows_by_image[i].rows[k].annotation_id = rows_by_image[j].rows[l].annotation_id
            /\ rows_by_image[i].rows[k].region_id = rows_by_image[j].rows[l].region_id)
           => (i = j /\ k = l)
  /\ (cur.set /\ cur.out.kind = "raise") => RowsFor(ann_id, CurRid) = 0

\* A record was dropped because a row of its annotation already has its id.
C1_Witness ==
  /\ cur.set
  /\ cur.res.id # NoneStr
  /\ cur.out.kind = "skip"
  /\ cur.out.why = "duplicate"
  /\ IsMask(cur.res) \/ IsPolygon(cur.res)
  /\ RowsFor(ann_id, CurRid) = 1

\* C2: every record ends as an emitted row or as a skip, so that no record
\* aborts the batch and the export reaches packaging.
C2_EveryRecordRowOrSkip ==
  /\ cur.set => cur.out.kind \in {"row", "skip"}
  /\ pc # "raised"

\* The points payload of a polygon is malformed: not a list, or a vertex
\* that is not a pair of numbers.
MalformedPoints(points) ==
  \/ points.t = "int"
  \/ points.t = "list" /\ \E i \in 1..Len(points.items) : Len(points.items[i]) # 2

\* C3: a polygon region with malformed points is skipped without a row and
\* the batch continues.
C3_MalformedPolygonSkipped ==
  (cur.set /\ LowerType(cur.res.type) = "polygonlabels" /\ MalformedPoints(cur.res.value.points))
    => (cur.out.kind = "skip" /\ pc = "results")

\* The run-length payload of a mask is malformed: not a list, or a list with
\* an entry that is not an integer.
MalformedRle(rle) ==
  \/ rle.t = "int"
  \/ rle.t = "list" /\ \E i \in 1..Len(rle.items) : rle.items[i].k # "int"

\* C4: a mask region with a malformed run-length payload is skipped without
\* a row and without its region id being marked as processed.
C4_MalformedMaskSkipped ==
  (cur.set /\ LowerType(cur.res.type) = "brushlabels" /\ MalformedRle(cur.res.value.rle))
    => (cur.out.kind = "skip" /\ RowsFor(ann_id, CurRid) = 0)

\* No image reference of the batch so far resolves to an image that opens.
AllUnresolved ==
  \A u \in seen_urls : OpenImage(ResolveImageSource(u), download_resources) = NoImage

\* C5 as stated: a completed batch in which every image reference fails to
\* resolve contains the note file.
C5_UnresolvedBatchHasNote ==
  (pc = "done" /\ AllUnresolved) => (archive.made /\ archive.readme)

\* C5: a batch in which every image reference fails to resolve and no record
\* carries explicit size metadata raises no exception, emits no row, and
\* when completed its archive holds the note file and no table.
C5_UnresolvedUnsizedBatchHasNote ==
  (AllUnresolved /\ ~sized)
    => /\ pc # "raised"
       /\ rows_by_image = <<>>
       /\ pc = "done" => (archive.made /\ archive.readme /\ archive.files = <<>>)

\* A batch with records and unresolvable images only, none sized, completed.
C5_Witness ==
  /\ pc = "done"
  /\ AllUnresolved
  /\ ~sized
  /\ seen_urls # {}
  /\ nResults > 0
  /\ archive.readme

\* C6: the archive holds the note file exactly when no row was produced;
\* with at least one row it holds one table per group and no note file.
C6_NoteIffNoRows ==
  pc = "done" =>
    /\ archive.readme <=> RowPositions = {}
    /\ RowPositions # {} =>
         /\ ~archive.readme
         /\ Len(archive.files) = Len(rows_by_image)
         /\ \A i \in 1..Len(rows_by_image) :
              \E j \in 1..Len(archive.files) : archive.files[j].rows = rows_by_image[i].rows

\* The shape of a record decodes at the given size.
ShapeDecodes(res, width, height) ==
  IF IsMask(res)
  THEN RleList(res.value.rle).ok
       /\ DecodeBrushRleToMask(RleList(res.value.rle).items, width, height).ok
  ELSE IsPolygon(res) /\ ~MalformedPoints(res.value.points)

\* The mask of a record whose shape decodes.
MaskOf(res, width, height) ==
  IF IsMask(res)
  THEN DecodeBrushRleToMask(RleList(res.value.rle).items, width, height).mask
  ELSE RasterizePolygon(PolygonPointsPercentToPx(PointsOrEmpty(res.value.points), width, height),
                        width, height)

\* The row carries the bounding box and area of the mask.
GeometryOf(row, mask) ==
  \E bb \in {ComputeBboxAndArea(mask)} :
    /\ row.bbox_x_px = bb.x
    /\ row.bbox_y_px = bb.y
    /\ row.x_length_px = bb.w
    /\ row.y_length_px = bb.h
    /\ row.area_px = bb.area

\* The record just handled has an explicit size and a shape that decodes, is
\* not a repeat of a processed region id, and its image cannot be opened.
C7_Case ==
  /\ cur.set
  /\ CurUrl # UrlEmpty
  /\ CurExplicitSize
  /\ cur.out.why # "duplicate"
  /\ ShapeDecodes(cur.res, cur.size[1], cur.size[2])
  /\ CurImage = NoImage

\* The numeric override that the textarea records of the annotation supply
\* for a region id: the last one whose first text parses as a number.
RECURSIVE OverrideOf(_, _, _)
OverrideOf(rs, id, acc) ==
  IF rs = <<>> THEN acc
  ELSE OverrideOf(Tail(rs), id,
         IF Head(rs).id = id /\ id # NoneStr /\ Head(rs).type = "textarea"
            /\ Head(rs).text # <<>> /\ ParseFloat(Head(rs).text[1]).ok
         THEN ParseFloat(Head(rs).text[1]).v ELSE acc)

\* C7 as stated: size known, shape decodes, image cannot be opened: a row is
\* emitted with the geometry of the mask and all intensity fields absent.
C7_RowWithoutIntensities ==
  C7_Case =>
    /\ cur.out.kind = "row"
    /\ GeometryOf(cur.out.row[1], MaskOf(cur.res, cur.size[1], cur.size[2]))
    /\ cur.out.row[1].mean_gray = Absent
    /\ cur.out.row[1].mean_r = Absent
    /\ cur.out.row[1].mean_g = Absent
    /\ cur.out.row[1].mean_b = Absent

\* C7: size known, shape decodes, image cannot be opened: a row is emitted
\* with the geometry of the mask; its R, G and B means are absent and its
\* gray mean is the numeric textual override of the region id when the
\* annotation supplies one, and absent otherwise.
C7_RowWithOverrideOnly ==
  C7_Case =>
    /\ cur.out.kind = "row"
    /\ GeometryOf(cur.out.row[1], MaskOf(cur.res, cur.size[1], cur.size[2]))
    /\ cur.out.row[1].mean_gray = OverrideOf(results, cur.res.id, Absent)
    /\ cur.out.row[1].mean_r = Absent
    /\ cur.out.row[1].mean_g = Absent
    /\ cur.out.row[1].mean_b = Absent

\* A row emitted without an image whose gray mean is a textual override.
C7_Witness ==
  /\ C7_Case
  /\ cur.out.kind = "row"
  /\ cur.out.row[1].mean_gray # Absent
  /\ cur.out.row[1].area_px > 0

\* C8: the size of a region comes from explicit metadata and otherwise from
\* opening the image: without explicit metadata and with an image that opens
\* the region is processed with the dimensions of the image, and it is
\* skipped for lack of size only when neither source yields both dimensions.
C8_SizeFromMetadataElseImage ==
  (cur.set /\ CurUrl # UrlEmpty) =>
    /\ CurExplicitSize => cur.size = <<cur.res.original_width, cur.res.original_height>>
    /\ (~CurExplicitSize /\ CurImage # NoImage)
         => (cur.size = <<CurImage.w, CurImage.h>> /\ cur.out.why # "no_size")
    /\ cur.out.why = "no_size" => (~CurExplicitSize /\ CurImage = NoImage)

\* The record is neither a mask nor a polygon: its type is neither, it has
\* no run-length list in rle format and no non-empty list of points.
NeitherMaskNorPolygon(res) ==
  /\ LowerType(res.type) \notin {"brushlabels", "polygonlabels"}
  /\ ~(res.value.format = "rle" /\ res.value.rle.t = "list")
  /\ ~(res.value.points.t = "list" /\ res.value.points.items # <<>>)

\* C9: handling a record that is neither a mask nor a polygon adds no row,
\* marks no region id, raises no exception, and leaves the loop at the next
\* record.
C9_UnrecognizedShapeNoRow ==
  [][(pc = "results" /\ ri' = ri + 1 /\ NeitherMaskNorPolygon(cur'.res))
       => (rows_by_image' = rows_by_image
             /\ processed_region_ids' = processed_region_ids
             /\ pc' = "results")]_vars

\* A textarea or label-only record with image and size reached the shape
\* test and was passed over, after a row had been emitted.
C9_Witness ==
  /\ cur.set
  /\ NeitherMaskNorPolygon(cur.res)
  /\ cur.out.why = "shape"
  /\ CurExplicitSize
  /\ RowPositions # {}

\* C10: two rows are in the same table exactly when they have the same
\* display filename and the same task.
C10_TableIffFilenameAndTask ==
  \A i, j \in 1..Len(rows_by_image) :
    \A k \in 1..Len(rows_by_image[i].rows), l \in 1..Len(rows_by_image[j].rows) :
      (i = j) <=> (rows_by_image[i].rows[k].image_filename = rows_by_image[j].rows[l].image_filename
                     /\ rows_by_image[i].rows[k].task_id = rows_by_image[j].rows[l].task_id)

\* Two rows of one display filename sit in the tables of two tasks.
C10_Witness ==
  \E p, q \in RowPositions :
    /\ p[1] # q[1]
    /\ RowAt(p).image_filename = RowAt(q).image_filename
    /\ RowAt(p).task_id # RowAt(q).task_id

\* ---------------------------------------------------------------------
\* Properties of the helper functions.

\* The example of the decoder has been decoded over 1 by 7 cells.
ExampleDecoded ==
  /\ call.f = "decode"
  /\ call.done
  /\ call.arg.rle = ExampleRle
  /\ call.arg.width = 7
  /\ call.arg.height = 1

C12_RoundTrip ==
  (call.f = "decode" /\ call.done /\ call.arg.src # <<>>)
    => (call.res.ok /\ call.res.mask = call.arg.src)

\* A mask whose first cell is foreground (leading run 0) and that has more
\* than one row has made the round trip.
C12_Witness ==
  /\ call.f = "decode"
  /\ call.done
  /\ call.arg.src # <<>>
  /\ Len(call.arg.src) > 1
  /\ call.arg.src[1][1]
  /\ call.arg.rle[1] = IntE(0)
  /\ call.res.mask = call.arg.src

\* The zero-based columns and rows that hold a true pixel of a mask.
TrueColumns(mask) ==
  {c \in 0..(MaskWidth(mask) - 1) : \E r \in 1..Len(mask) : mask[r][c + 1]}

TrueRows(mask) ==
  {r \in 0..(Len(mask) - 1) : \E c \in 1..MaskWidth(mask) : mask[r + 1][c]}

\* The number of true cells of a mask.
RECURSIVE CountTrue(_)
CountTrue(cells) ==
  IF cells = <<>> THEN 0 ELSE (IF Head(cells) THEN 1 ELSE 0) + CountTrue(Tail(cells))

\* C13: _compute_bbox_and_area returns (0,0,0,0,0) for a mask without a true
\* pixel, and otherwise the least true column, the least true row, greatest
\* minus least column, greatest minus least row, and the count of true
\* pixels.
C13_BboxAndArea ==
  (call.f = "bbox" /\ call.done) =>
    IF CountTrue(Flatten(call.arg.mask)) = 0
    THEN call.res = [x |-> 0, y |-> 0, w |-> 0, h |-> 0, area |-> 0]
    ELSE /\ call.res.x \in TrueColumns(call.arg.mask)
         /\ \A c \in TrueColumns(call.arg.mask) : call.res.x <= c /\ c <= call.res.x + call.res.w
         /\ call.res.x + call.res.w \in TrueColumns(call.arg.mask)
         /\ call.res.y \in TrueRows(call.arg.mask)
         /\ \A r \in TrueRows(call.arg.mask) : call.res.y <= r /\ r <= call.res.y + call.res.h
         /\ call.res.y + call.res.h \in TrueRows(call.arg.mask)
         /\ call.res.area = CountTrue(Flatten(call.arg.mask))

\* A mask of one true pixel away from the origin has extents 0 and area 1.
C13_Witness ==
  /\ call.f = "bbox"
  /\ call.done
  /\ call.res.area = 1
  /\ call.res.x > 0
  /\ call.res.y > 0
  /\ call.res.w = 0
  /\ call.res.h = 0

\* The mask has the shape of the image.
SameShape(image, mask) == Len(mask) = image.h /\ MaskWidth(mask) = image.w

NumericZero == [n |-> 0, d |-> 1]

\* C14: _compute_intensities returns the four means absent for a mask without
\* a true pixel and a numeric 0, which is not absent, when the masked pixels
\* are all 0; the cells of the row are empty for the absent means only.
C14_AbsentIsNotZero ==
  /\ (call.f \in {"intensities", "cells"} /\ call.done
        /\ CountTrue(Flatten(call.arg.mask)) = 0)
       => (call.res.ok /\ call.res.gray = Absent /\ call.res.r = Absent
             /\ call.res.g = Absent /\ call.res.b = Absent)
  /\ (call.f \in {"intensities", "cells"} /\ call.done /\ call.res.ok
        /\ SameShape(call.arg.image, call.arg.mask)
        /\ CountTrue(Flatten(call.arg.mask)) > 0
        /\ \A r \in 1..Len(call.arg.mask), c \in 1..MaskWidth(call.arg.mask) :
             call.arg.mask[r][c] => call.arg.image.px[r][c] = <<0, 0, 0>>)
       => (call.res.gray = NumericZero /\ call.res.gray # Absent
             /\ call.res.r \in {NumericZero, Absent}
             /\ call.res.g \in {NumericZero, Absent}
             /\ call.res.b \in {NumericZero, Absent})
  /\ call.f = "cells"
       => /\ (call.cells.gray = EmptyCell) <=> (call.res.gray = Absent)
          /\ (call.cells.r = EmptyCell) <=> (call.res.r = Absent)
          /\ (call.cells.g = EmptyCell) <=> (call.res.g = Absent)
          /\ (call.cells.b = EmptyCell) <=> (call.res.b = Absent)
          /\ call.res.gray # Absent => call.cells.gray = call.res.gray

\* The cells of a colour image whose masked pixels are all 0 are four
\* zeros, none of them empty.
C14_Witness ==
  /\ call.f = "cells"
  /\ call.arg.image.mode = "RGB"
  /\ call.res.gray = NumericZero
  /\ call.cells.gray = NumericZero
  /\ call.cells.r = NumericZero
  /\ call.cells.b = NumericZero

\* The one-channel modes of Pillow that hold gray levels: 8-bit "L", 32-bit
\* "I" and "F", and the 16-bit "I;16" with its byte-order variants.
GrayModes == {"L", "I", "F", "I;16", "I;16L", "I;16B", "I;16N"}

\* C15: for a one-channel gray image and a mask with a true pixel,
\* _compute_intensities returns a gray mean and R, G, B absent; for every
\* other mode it returns all four means.
C15_GrayModesHaveNoRgb ==
  (call.f = "intensities" /\ call.done
     /\ SameShape(call.arg.image, call.arg.mask)
     /\ CountTrue(Flatten(call.arg.mask)) > 0)
    => /\ call.res.ok
       /\ call.res.gray # Absent
       /\ IF call.arg.image.mode \in GrayModes
          THEN call.res.r = Absent /\ call.res.g = Absent /\ call.res.b = Absent
          ELSE call.res.r # Absent /\ call.res.g # Absent /\ call.res.b # Absent

\* ---------------------------------------------------------------------
\* Properties of the rows of the segmentation export.

\* The own label list of the record of a row: brushlabels for a mask,
\* polygonlabels for a polygon.
OwnLabels(res, shape_type) ==
  IF shape_type = "mask" THEN res.value.brushlabels ELSE res.value.polygonlabels

\* The label list that a record of the annotation carries: its brushlabels,
\* else its polygonlabels.
CarriedLabels(rec) == IF rec.brushlabels # <<>> THEN rec.brushlabels ELSE rec.polygonlabels

\* The labels that the records of the annotation carry for a region id.
LabelsRecordedFor(rs, id) ==
  {JoinLabels(CarriedLabels(rs[i])) :
     i \in {j \in 1..Len(rs) : rs[j].id = id /\ id # NoneStr /\ CarriedLabels(rs[j]) # <<>>}}

\* C16: the label of an emitted row is the own label list of its record,
\* joined by ";", when that list is not empty; otherwise it is a label that
\* a record of the same annotation carries for the same region id (empty
\* when there is none), never one of another annotation or region id.
C16_LabelOwnElseSameRegion ==
  (cur.set /\ cur.out.kind = "row") =>
    IF OwnLabels(cur.res, cur.out.row[1].shape_type) # <<>>
    THEN cur.out.row[1].label = JoinLabels(OwnLabels(cur.res, cur.out.row[1].shape_type))
    ELSE IF LabelsRecordedFor(results, cur.res.id) # {}
    THEN cur.out.row[1].label \in LabelsRecordedFor(results, cur.res.id)
    ELSE cur.out.row[1].label = <<>>

\* A row without own labels took the label of another record of its region.
C16_Witness ==
  /\ cur.set
  /\ cur.out.kind = "row"
  /\ OwnLabels(cur.res, cur.out.row[1].shape_type) = <<>>
  /\ cur.out.row[1].label # <<>>

\* The size, mask and image of the row just emitted.
CurMask == MaskOf(cur.res, cur.size[1], cur.size[2])

\* The four means of a row are absent.
AllMeansAbsent(row) ==
  /\ row.mean_gray = Absent
  /\ row.mean_r = Absent
  /\ row.mean_g = Absent
  /\ row.mean_b = Absent

\* The means of a row are those of the pixels of the image under the mask:
\* the gray mean is the mean gray level, and R, G, B are the channel means
\* of a colour image and absent for a gray image.
MeansFromPixels(row, image, mask) ==
  /\ row.mean_gray = ComputeIntensities(image, mask).gray
  /\ row.mean_r = ComputeIntensities(image, mask).r
  /\ row.mean_g = ComputeIntensities(image, mask).g
  /\ row.mean_b = ComputeIntensities(image, mask).b
  /\ (row.mean_gray # Absent) <=> (CountTrue(Flatten(mask)) > 0)

\* The override decides first.
OverrideFirst(row) ==
  OverrideOf(results, cur.res.id, Absent) # Absent
    => /\ row.mean_gray = OverrideOf(results, cur.res.id, Absent)
       /\ row.mean_r = Absent
       /\ row.mean_g = Absent
       /\ row.mean_b = Absent

C18_NoPixelsNoMeansAsStated ==
  (cur.set /\ cur.out.kind = "row"
     /\ (cur.out.row[1].area_px = 0 \/ CurImage = NoImage))
    => AllMeansAbsent(cur.out.row[1])

\* C18: a row of area zero, and a row whose image could not be opened, has
\* mean_r, mean_g and mean_b absent, and mean_gray absent unless the
\* annotation supplies a numeric textual override for the region id, which
\* is then the value of mean_gray.
C18_NoPixelsNoMeans ==
  (cur.set /\ cur.out.kind = "row"
     /\ (cur.out.row[1].area_px = 0 \/ CurImage = NoImage))
    => /\ cur.out.row[1].mean_r = Absent
       /\ cur.out.row[1].mean_g = Absent
       /\ cur.out.row[1].mean_b = Absent
       /\ cur.out.row[1].mean_gray = OverrideOf(results, cur.res.id, Absent)

\* A row of area zero whose image opens, without an override.
C18_Witness ==
  /\ cur.set
  /\ cur.out.kind = "row"
  /\ cur.out.row[1].area_px = 0
  /\ CurImage # NoImage
  /\ OverrideOf(results, cur.res.id, Absent) = Absent
  /\ AllMeansAbsent(cur.out.row[1])

\* An image reference made unavailable if it was available, and available
\* if it was not; the absence of a reference stays.
FlipRef(ref) ==
  IF ref = UrlEmpty THEN ref
  ELSE IF Stored(ref) # NoImage THEN UrlMissing
  ELSE UrlLocal

\* The data of the task in the runs that differ in the availability of the
\* images of the fields other than keep.
TwinData(data, keep) ==
  {[i \in 1..Len(data) |->
      IF data[i].key # keep /\ f[i] THEN [data[i] EXCEPT !.ref = FlipRef(@)] ELSE data[i]]
     : f \in [1..Len(data) -> BOOLEAN]}

\* The processed region ids in the runs in which the regions other than rid
\* fared otherwise: none of them was processed, or all of them were.
TwinProcessed(processed, rid) ==
  {processed,
   {q \in processed : q = rid},
   processed \cup {[s |-> k, obj |-> 0] : k \in (RegionKeys \ {rid.s})}}

Responded == http.stage = "responded"

\* Turnstile is enabled and the request is a POST.
Guarded ==
  /\ http.method = "POST"
  /\ \/ http.setting_enabled = "True"
     \/ http.setting_enabled = "None" /\ http.env_enabled = "On"

\* A token was supplied in a form field or in the header.
TokenSupplied ==
  \E t \in {http.post_dash, http.post_underscore, http.header} : t # None /\ t # ""

\* The verification succeeds: a secret is configured and siteverify answers
\* with a JSON object whose success member is true.
VerificationSucceeds ==
  /\ http.setting_secret = "k" \/ http.env_secret = "k"
  /\ http.reply = [kind |-> "json", success |-> "true"]

\* C20: with Turnstile enabled, a POST reaches the wrapped view only with a
\* token supplied and a successful verification: a missing token is
\* answered 400 and a failed or erroring verification 403, neither invoking
\* the view; other methods and a disabled feature invoke the view without
\* any verification request.
C20_ViewOnlyAfterVerification ==
  Responded =>
    /\ (Guarded /\ http.view_called) => (TokenSupplied /\ VerificationSucceeds)
    /\ (Guarded /\ ~TokenSupplied)
         => (http.response.status = 400 /\ ~http.view_called /\ ~http.posted.sent)
    /\ (Guarded /\ TokenSupplied /\ ~VerificationSucceeds)
         => (http.response.status = 403 /\ ~http.view_called)
    /\ ~Guarded => (http.view_called /\ http.response = ViewResponse /\ ~http.posted.sent)

\* A POST with Turnstile enabled was refused because the verification
\* request raised, and the token had come in the header only.
C20_Witness ==
  /\ Responded
  /\ Guarded
  /\ http.post_dash = "" /\ http.post_underscore = None /\ http.header = "t3"
  /\ http.reply.kind = "raises"
  /\ http.posted.sent
  /\ http.response.status = 403

\* ---------------------------------------------------------------------
\* Properties of the mask decoder on arbitrary lists of counts.

\* A call of the decoder on a list of integer counts has returned.
DecodedInts ==
  /\ call.f = "decode"
  /\ call.done
  /\ \A i \in 1..Len(call.arg.rle) : call.arg.rle[i].k = "int"

\* The number of positions that the positive counts of a list cover, cut at
\* total.
RECURSIVE PositiveSum(_)
PositiveSum(rle) ==
  IF rle = <<>> THEN 0
  ELSE (IF Head(rle).v > 0 THEN Head(rle).v ELSE 0) + PositiveSum(Tail(rle))

Consumed(rle, total) == Min2(total, PositiveSum(rle))

\* The list without its entry i.
Without(rle, i) == SubSeq(rle, 1, i - 1) \o SubSeq(rle, i + 1, Len(rle))

\* C21: a count that is zero or negative consumes no positions and does
\* not end the decoding: the cells up to the positions consumed before it
\* are those of the list without that entry, the cells of the runs after it
\* are the opposite of those of the list without that entry, and the cells
\* past the last run are background.
C21_NonPositiveRunFlips ==
  DecodedInts =>
    /\ call.res.ok
    /\ \E cells \in {Flatten(call.res.mask)} :
         \A i \in {k \in 1..Len(call.arg.rle) : call.arg.rle[k].v <= 0} :
           \E other \in {Flatten(DecodeBrushRleToMask(Without(call.arg.rle, i), call.arg.width,
                                                      call.arg.height).mask)} :
             \A j \in 1..(call.arg.width * call.arg.height) :
               cells[j] =
                 IF j <= Consumed(SubSeq(call.arg.rle, 1, i - 1), call.arg.width * call.arg.height)
                 THEN other[j]
                 ELSE IF j <= Consumed(call.arg.rle, call.arg.width * call.arg.height)
                 THEN ~other[j]
                 ELSE FALSE

\* A zero or negative count stood between two runs that lie inside the
\* mask: the run after it was decoded as background, and is foreground in
\* the list without that count.
C21_Witness ==
  /\ DecodedInts
  /\ Len(call.arg.rle) = 3
  /\ call.arg.rle[1].v > 0
  /\ call.arg.rle[2].v <= 0
  /\ call.arg.rle[3].v > 0
  /\ call.arg.rle[1].v + call.arg.rle[3].v < call.arg.width * call.arg.height
  /\ ~Flatten(call.res.mask)[call.arg.rle[1].v + 1]
  /\ Flatten(DecodeBrushRleToMask(Without(call.arg.rle, 2), call.arg.width,
                                  call.arg.height).mask)[call.arg.rle[1].v + 1]

\* The cells that the runs of a list spell out, the first run having the
\* given value; a count that is not positive spells no cell.
RECURSIVE RunCells(_, _)
RunCells(rle, value) ==
  IF rle = <<>> THEN <<>>
  ELSE [i \in 1..(IF Head(rle).v > 0 THEN Head(rle).v ELSE 0) |-> value]
         \o RunCells(Tail(rle), ~value)

\* C22: the decoded mask of a list of integer counts has height rows of
\* width cells; its cells are those of the runs up to position width*height,
\* where a run is cut and the later runs are ignored, and the positions that
\* no run covers are background.
C22_ExactlyTotalCells ==
  DecodedInts =>
    /\ call.res.ok
    /\ Len(call.res.mask) = call.arg.height
    /\ \A r \in 1..call.arg.height : Len(call.res.mask[r]) = call.arg.width
    /\ \E cells \in {Flatten(call.res.mask)} :
         \E runs \in {RunCells(call.arg.rle, FALSE)} :
           \A j \in 1..(call.arg.width * call.arg.height) :
             cells[j] = (j <= Len(runs) /\ runs[j])

\* A foreground run passed the last position and further runs followed it.
C22_Witness ==
  /\ DecodedInts
  /\ Len(call.arg.rle) = 3
  /\ call.arg.rle[1].v > 0
  /\ call.arg.rle[1].v < call.arg.width * call.arg.height
  /\ call.arg.rle[1].v + call.arg.rle[2].v > call.arg.width * call.arg.height
  /\ call.arg.rle[3].v > 0
  /\ Flatten(call.res.mask)[call.arg.width * call.arg.height]

\* ---------------------------------------------------------------------
\* Properties of the batch as a whole.

\* The records that a facet of the pre-scan can belong to.
RecordsOf(facet) == {r \in RecordMenu : FacetOf(r) = facet}

\* The facet is that of one record, which carries explicit size and a shape
\* payload that decodes.
ShapeFacet(facet) ==
  /\ Cardinality(RecordsOf(facet)) = 1
  /\ \A r \in RecordsOf(facet) :
       /\ r.original_width > 0 /\ r.original_height > 0
       /\ r.value.rle.items # <<>> \/ r.value.points.items # <<>>
       /\ ShapeDecodes(r, r.original_width, r.original_height)

\* The facet carries a label list, and its records carry no shape payload.
LabelOnlyFacet(facet) ==
  /\ CarriedLabels(facet) # <<>>
  /\ \A r \in RecordsOf(facet) : r.value.rle = NoList /\ r.value.points = NoList

\* The facet is a textual override with a numeric text.
OverrideFacet(facet) ==
  /\ facet.type = "textarea"
  /\ facet.text # <<>>
  /\ ParseFloat(facet.text[1]).ok

\* The positions in results of the records of a region id.
RecordsWithId(k) == {i \in 1..Len(results) : results[i].id = k}

\* The region ids that the annotation splits over one shape record and
\* label-only or override records.
SplitIds ==
  {k \in RegionKeys :
     /\ Cardinality(RecordsWithId(k)) >= 2
     /\ Cardinality({i \in RecordsWithId(k) : ShapeFacet(results[i])}) = 1
     /\ \A i \in RecordsWithId(k) :
          ShapeFacet(results[i]) \/ LabelOnlyFacet(results[i]) \/ OverrideFacet(results[i])}

\* The shape record of a split region id.
ShapeRecordOf(k) ==
  CHOOSE r \in RecordMenu : \E i \in RecordsWithId(k) : ShapeFacet(results[i]) /\ FacetOf(r) = results[i]

\* All records of the annotation have been handled.
AnnotationHandled == pc = "results" /\ ri = Len(results)

\* C23: an annotation that splits a region id over one shape record and
\* label-only or override records, in any order, yields exactly one row for
\* the id, with the geometry of the shape record, the label of the label
\* record and the override of the override record.
C23_SplitRegionOneRow ==
  AnnotationHandled =>
    \A k \in SplitIds :
      /\ RowsFor(ann_id, [s |-> k, obj |-> 0]) = 1
      /\ \A p \in RowPositions :
           (RowAt(p).annotation_id = ann_id /\ RowAt(p).region_id = [s |-> k, obj |-> 0]) =>
             /\ GeometryOf(RowAt(p), MaskOf(ShapeRecordOf(k), ShapeRecordOf(k).original_width,
                                            ShapeRecordOf(k).original_height))
             /\ (\E i \in RecordsWithId(k) : LabelOnlyFacet(results[i]))
                  => RowAt(p).label \in LabelsRecordedFor(results, k)
             /\ (\E i \in RecordsWithId(k) : OverrideFacet(results[i]))
                  => RowAt(p).mean_gray = OverrideOf(results, k, Absent)

\* Every table of rows_by_image is kept, with its rows as a prefix of its
\* rows in the next state.
TablesExtended ==
  /\ Len(rows_by_image') >= Len(rows_by_image)
  /\ \A i \in 1..Len(rows_by_image) :
       /\ rows_by_image'[i].key = rows_by_image[i].key
       /\ Len(rows_by_image'[i].rows) >= Len(rows_by_image[i].rows)
       /\ SubSeq(rows_by_image'[i].rows, 1, Len(rows_by_image[i].rows)) = rows_by_image[i].rows

\* The step adds one row, the row of the next record of the annotation, at
\* the end of a table.
NextRecordAppended ==
  /\ pc = "results"
  /\ ri' = ri + 1
  /\ FacetOf(cur'.res) = results[ri + 1]
  /\ cur'.out.kind = "row"
  /\ Cardinality(RowPositions') = Cardinality(RowPositions) + 1
  /\ \E i \in 1..Len(rows_by_image') :
       rows_by_image'[i].rows[Len(rows_by_image'[i].rows)] = cur'.out.row[1]

\* Within every table the rows follow the order of the tasks and of the
\* annotations (the ids of the explored tasks and annotations grow in input
\* order).
TablesInInputOrder ==
  \A i \in 1..Len(rows_by_image) :
    \A a, b \in 1..Len(rows_by_image[i].rows) :
      a < b => /\ rows_by_image[i].rows[a].task_id <= rows_by_image[i].rows[b].task_id
               /\ rows_by_image[i].rows[a].annotation_id <= rows_by_image[i].rows[b].annotation_id

\* Every written file holds the rows of a table, in their order.
FilesHoldTables ==
  \A f \in 1..Len(files) :
    \E i \in 1..Len(rows_by_image) :
      /\ files[f].name = SafeName(rows_by_image[i].key)
      /\ files[f].rows = rows_by_image[i].rows

\* C24: records are handled one after the other in input order, and rows
\* are only appended: every step keeps the rows of every table as they are,
\* a step that adds a row adds the row of the next record at the end of its
\* table, the rows of a table follow the input order, and the files are
\* written with the rows of the tables in that order.
C24_AppendOnlyInInputOrder ==
  [][/\ TablesExtended
     /\ (rows_by_image' # rows_by_image) => NextRecordAppended
     /\ TablesInInputOrder'
     /\ FilesHoldTables']_vars

\* A table holds the rows of two annotations, and the batch is packaged.
C24_Witness ==
  /\ pc = "done"
  /\ \E i \in 1..Len(rows_by_image) :
       /\ Len(rows_by_image[i].rows) >= 2
       /\ rows_by_image[i].rows[1].annotation_id < rows_by_image[i].rows[2].annotation_id
       /\ \E f \in 1..Len(files) : files[f].rows = rows_by_image[i].rows

\* The files of the archive that hold a row.
FilesWithRow(row) ==
  {f \in 1..Len(archive.files) :
     \E j \in 1..Len(archive.files[f].rows) : archive.files[f].rows[j] = row}

\* C25: in the packaged archive different group keys have different file
\* names, and every emitted row is in exactly one file.
C25_DistinctGroupsDistinctFiles ==
  (pc = "done") =>
    /\ \A i, j \in 1..Len(rows_by_image) :
         i # j => SafeName(rows_by_image[i].key) # SafeName(rows_by_image[j].key)
    /\ \A p \in RowPositions : Cardinality(FilesWithRow(RowAt(p))) = 1

\* C26: the row of a region of an image of W by H cells has W >= 1, H >= 1,
\* its bounding box within 0..W-1 and 0..H-1, and
\* 0 <= area <= (x_length+1)*(y_length+1) <= W*H; area is 0 exactly when
\* the mask is empty, and then the four bbox fields are 0.
C26_BboxWithinImage ==
  (cur.set /\ cur.out.kind = "row") =>
    \E row \in {cur.out.row[1]} :
      /\ cur.size[1] >= 1
      /\ cur.size[2] >= 1
      /\ 0 <= row.bbox_x_px
      /\ row.bbox_x_px + row.x_length_px <= cur.size[1] - 1
      /\ 0 <= row.bbox_y_px
      /\ row.bbox_y_px + row.y_length_px <= cur.size[2] - 1
      /\ 0 <= row.area_px
      /\ row.area_px <= (row.x_length_px + 1) * (row.y_length_px + 1)
      /\ (row.x_length_px + 1) * (row.y_length_px + 1) <= cur.size[1] * cur.size[2]
      /\ (row.area_px = 0) <=> (MaskSum(CurMask) = 0)
      /\ (row.area_px = 0) =>
           /\ row.bbox_x_px = 0 /\ row.bbox_y_px = 0
           /\ row.x_length_px = 0 /\ row.y_length_px = 0

\* A row whose box ends at the last column of an image whose size was
\* taken from the opened image.
C26_Witness ==
  /\ cur.set
  /\ cur.out.kind = "row"
  /\ ~CurExplicitSize
  /\ cur.out.row[1].area_px > 0
  /\ cur.out.row[1].bbox_x_px > 0
  /\ cur.out.row[1].bbox_x_px + cur.out.row[1].x_length_px = cur.size[1] - 1

\* The region ids of the rows emitted for the annotation of the middle loop.
RowIdsOfAnnotation ==
  {RowAt(p).region_id : p \in {q \in RowPositions : RowAt(q).annotation_id = ann_id}}

\* C27: while the records of an annotation are handled, the processed
\* region ids are the ids of the rows emitted for the annotation; a record
\* that is skipped leaves the set and the rows unchanged, a record that
\* emits a row has an id that was not in the set and adds it, and the set is
\* empty when an annotation starts.
C27_ProcessedAreEmitted ==
  [][/\ (pc' = "results") => (processed_region_ids' = RowIdsOfAnnotation')
     /\ (pc = "results" /\ ri' = ri + 1 /\ cur'.out.kind # "row")
          => (processed_region_ids' = processed_region_ids /\ rows_by_image' = rows_by_image)
     /\ (pc = "results" /\ ri' = ri + 1 /\ cur'.out.kind = "row")
          => /\ cur'.out.row[1].region_id \notin processed_region_ids
             /\ processed_region_ids' = processed_region_ids \cup {cur'.out.row[1].region_id}
     /\ (pc = "anns" /\ pc' = "results") => (processed_region_ids' = {})]_vars

\* After a row of the annotation, a record of another kind was skipped for
\* its shape, its size or its payload.
C27_Witness ==
  /\ cur.set
  /\ cur.out.kind = "skip"
  /\ cur.out.why \in {"no_size", "shape", "decode"}
  /\ processed_region_ids # {}
  /\ processed_region_ids = RowIdsOfAnnotation

\* ---------------------------------------------------------------------
\* Properties of the background jobs.

\* The invocations that passed the status check.
Passed == {i \in Invocations : project_import.inv[i] \in {"passed", "done"}}

\* C28: of the invocations for one id at most one passes the status check
\* and loads tasks; the others leave the row as it is and load nothing.
C28_ProcessedAtMostOnce ==
  /\ Cardinality(Passed) <= 1
  /\ project_import.loads <= 1
  /\ project_import.writes <= 2 * Cardinality(Passed)

\* The export has ended: its status is COMPLETED or FAILED and no call of
\* export_to_file is between the save of the status and its finally.
ExportEnded ==
  /\ export.row.status \in {"completed", "failed"}
  /\ export.worker # "finally"

\* An export that was put into IN_PROGRESS ends.
InProgressEnds ==
  (export.row.status = "in_progress") ~> (export.row.status \in {"completed", "failed"})

\* An ended export has its finished_at.
EndedHasFinishedAt == [](ExportEnded => export.row.finished_at = "set")

\* A run that raised, and a job that failed, leave the export FAILED.
RaisedIsFailed ==
  [][(Len(export'.outcomes) > Len(export.outcomes)
        /\ export'.outcomes[Len(export'.outcomes)] \in {"raised", "job_failed"})
       => export'.row.status = "failed"]_vars

\* A call on an export in progress changes nothing and starts no export.
CallInProgressIsNoOp ==
  [][(export.row.status = "in_progress" /\ export'.calls = export.calls + 1)
       => export' = [export EXCEPT !.calls = @ + 1]]_vars

\* C29: an export put into IN_PROGRESS ends COMPLETED or FAILED, FAILED
\* when the run raised or the job failed; an ended export has its
\* finished_at; a call of run_file_exporting on an export in progress
\* changes nothing and starts no second export.
C29_ExportEnds ==
  /\ InProgressEnds
  /\ EndedHasFinishedAt
  /\ RaisedIsFailed
  /\ CallInProgressIsNoOp

\* The batches that count: those with tasks.
RECURSIVE SumOfBatches(_, _)
SumOfBatches(bs, field) ==
  IF bs = <<>> THEN 0
  ELSE (IF Head(bs).tasks > 0 THEN Head(bs)[field] ELSE 0) + SumOfBatches(Tail(bs), field)

\* The column sets reported by the batches with tasks.
ReportedColumns(bs) ==
  {bs[i].columns : i \in {j \in 1..Len(bs) : bs[j].tasks > 0 /\ bs[j].columns # {}}}

\* The columns common to all sets (none when there is no set).
CommonColumns(sets) ==
  IF sets = {} THEN {} ELSE {c \in UNION sets : \A cs \in sets : c \in cs}

\* C30: a completed streaming reimport records as data_columns the columns
\* common to all non-empty batches that reported columns, and as task,
\* annotation and prediction counts the sums over the batches; a reimport
\* that raised is FAILED and the exception was raised again.
C30_ReimportStatistics ==
  /\ (reimport.stage = "completed") =>
       /\ reimport.row.data_columns = CommonColumns(ReportedColumns(reimport.batches))
       /\ reimport.row.task_count = SumOfBatches(reimport.batches, "tasks")
       /\ reimport.row.annotation_count = SumOfBatches(reimport.batches, "annotations")
       /\ reimport.row.prediction_count = SumOfBatches(reimport.batches, "predictions")
       /\ reimport.row.status = "completed"
  /\ (reimport.stage = "failed") => (reimport.row.status = "failed" /\ reimport.raised)

====
